---- MODULE Spec2Model ----
(***************************************************************************)
(* Orchestration core of the generative-media flows:                       *)
(*   - the seven Veo connectors of src/flows/veo-video.ts (submit a job,   *)
(*     poll it until done, locate the media item, download it);            *)
(*   - the composite videoWithVoiceoverFlow of src/flows/video.ts          *)
(*     (image -> speech synthesis -> muxing -> optional publish);          *)
(*   - the single-purpose flows imageGenerationFlow (src/flows/image.ts),  *)
(*     combineImageAudioToVideoFlow (src/flows/combine-video.ts),          *)
(*     textToSpeechFlow (src/flows/tts.ts) and postTweetFlow               *)
(*     (src/flows/tweet.ts);                                               *)
(*   - two calls of one connector sharing the clock and the output         *)
(*     directory, for the naming of the output files.                      *)
(* Every await of a handler is a suspension point; one action models the   *)
(* external call issued there, its outcome, and all the synchronous code   *)
(* that runs until the next await or the return.                           *)
(***************************************************************************)
EXTENDS Naturals, Sequences, FiniteSets, TLC

(***************************************************************************)
(* Bounds of the model.                                                    *)
(***************************************************************************)
\* largest poll iteration at which the remote job may first report done
MaxPolls == 3
\* largest number of items in the job's output content collection
MaxParts == 2
\* Date.now() readings range over 1..MaxClock
MaxClock == 2
\* modification times of the files present before a run range over 1..MaxMtime
MaxMtime == 2
\* largest number of structured call entries in a tool-invocation response
MaxToolCalls == 2

(***************************************************************************)
(* JavaScript values.                                                      *)
(***************************************************************************)
\* the value undefined of an optional string field
Undef == "<undefined>"

\* a value a rejected external call may throw: an Error with a message, or
\* something that is not an Error
Thrown == {[isError |-> TRUE, message |-> "network error"],
           [isError |-> FALSE, message |-> Undef]}

\* catch: error instanceof Error ? error.message : "Unknown error occurred"
CatchMessage(e) == IF e.isError THEN e.message ELSE "Unknown error occurred"

(***************************************************************************)
(* The Veo connectors.                                                     *)
(***************************************************************************)
Flows == {"veo31TextToVideoFlow", "veo31FastTextToVideoFlow",
          "veo31ImageToVideoFlow", "veo31VideoToVideoFlow",
          "veo31FastImageToVideoFlow", "veo31FastVideoToVideoFlow",
          "veoVideoFlow"}

\* the flows that submit to veo-3.1-fast-generate-preview
FastFlows == {"veo31FastTextToVideoFlow", "veo31FastImageToVideoFlow",
              "veo31FastVideoToVideoFlow", "veoVideoFlow"}

\* the flows that take a local imagePath
ImageFlows == {"veo31ImageToVideoFlow", "veo31FastImageToVideoFlow"}

\* the flows that extend a video
ExtendFlows == {"veo31VideoToVideoFlow", "veo31FastVideoToVideoFlow"}

\* setTimeout(resolve, ms) of each flow's poll loop
PollIntervalAllLong(f) == 5000

PollInterval(f) ==
  CASE f = "veo31TextToVideoFlow"      -> 5000
    [] f = "veo31FastTextToVideoFlow"  -> 3000
    [] f = "veo31ImageToVideoFlow"     -> 5000
    [] f = "veo31VideoToVideoFlow"     -> 5000
    [] f = "veo31FastImageToVideoFlow" -> 3000
    [] f = "veo31FastVideoToVideoFlow" -> 3000
    [] f = "veoVideoFlow"              -> 3000

\* the text thrown when operation.error is set
RemoteErrorPrefix(f) ==
  IF f \in ExtendFlows THEN "Video extension failed: "
                       ELSE "Video generation failed: "

\* the text thrown when no media item is found
NotFoundMessage(f) ==
  IF f \in ExtendFlows
    THEN "Failed to find the extended video in the operation output"
    ELSE "Failed to find the generated video in the operation output"

\* path.join(OUTPUT_DIR, `<prefix>${Date.now()}.mp4`)
FilePrefix(f) ==
  CASE f = "veo31TextToVideoFlow"      -> "output/veo31_"
    [] f = "veo31FastTextToVideoFlow"  -> "output/veo31fast_"
    [] f = "veo31ImageToVideoFlow"     -> "output/veo31_i2v_"
    [] f = "veo31VideoToVideoFlow"     -> "output/veo31_extend_"
    [] f = "veo31FastImageToVideoFlow" -> "output/veo31fast_i2v_"
    [] f = "veo31FastVideoToVideoFlow" -> "output/veo31fast_extend_"
    [] f = "veoVideoFlow"              -> "output/veo_"

OutputPath(f, t) == FilePrefix(f) \o ToString(t) \o ".mp4"

(***************************************************************************)
(* The remote generation service.  A job is a script fixed at submission:  *)
(* whether it ever completes, the first status query that reports done     *)
(* (0: the handle returned by the submission is already done), and what    *)
(* it completes with: an error description, or an output content           *)
(* collection.  Per the long-running-operation contract, error and output  *)
(* are reported only together with done.                                   *)
(***************************************************************************)
RemoteErrors == {"quota exceeded"}
OpIds == {"operations/a", "operations/b"}
Urls == {"https://videos/1?alt=media", "https://videos/2?alt=media"}

\* one item of operation.output.message.content
TextPart == [media |-> FALSE, url |-> Undef]
MediaParts == {[media |-> TRUE, url |-> u] : u \in Urls \cup {Undef}}
Parts == {TextPart} \cup MediaParts

RECURSIVE SeqsUpTo(_, _)
SeqsUpTo(S, n) ==
  IF n = 0 THEN {<<>>}
  ELSE LET shorter == SeqsUpTo(S, n - 1)
       IN  shorter \cup {Append(s, x) : s \in {t \in shorter : Len(t) = n - 1}, x \in S}

Contents == SeqsUpTo(Parts, MaxParts)

Jobs == [id : OpIds, completes : {TRUE}, doneAt : 0..MaxPolls,
         error : RemoteErrors, content : {<<>>}]
        \cup
        [id : OpIds, completes : {TRUE}, doneAt : 0..MaxPolls,
         error : {Undef}, content : Contents]
        \cup
        [id : OpIds, completes : {FALSE}, doneAt : {0},
         error : {Undef}, content : {<<>>}]

VARIABLES
  flow,        \* the connector that was invoked
  vpc,         \* where its handler is: the await it is suspended at
  apiKey,      \* process.env holds one of the API key variables
  imageExists, \* fs.existsSync(input.imagePath)
  job,         \* the remote job's script
  operation,   \* the handler's variable `operation`
  video,       \* the handler's constant `video` (the media item found)
  videoPath,   \* the handler's constant `videoPath`
  downloadUrl, \* the videoUrl argument downloadVideo was called with
  dlResponse,  \* the response fetch(videoUrl) resolved with
  aspectRatio, \* input.aspectRatio as the caller gave it (Undef: omitted)
  request,     \* the model and configuration of the submission
  statusLines, \* `Operation status: ...` lines written to the console
  outFile,     \* the file at videoPath: "absent", "empty" (opened), "partial",
               \* "complete" (the whole body was written)
  vresult,     \* the value the handler returned
  submits,     \* jobs submitted (ai.generate calls)
  queries,     \* status queries issued (ai.checkOperation calls)
  fetches,     \* downloads attempted (fetch calls of downloadVideo)
  sinceCall,   \* milliseconds the task was suspended since its last remote call
  callThrew    \* an external call of this run has thrown

veoVars == <<flow, vpc, apiKey, imageExists, job, operation, video, videoPath,
             downloadUrl, dlResponse, aspectRatio, request, statusLines,
             outFile, vresult, submits, queries, fetches, sinceCall, callThrew>>

VARIABLES
  postOnX,     \* input.postOnX: TRUE, FALSE, or "omitted"
  ppc,         \* where the pipeline handler is: the await it is suspended at
  result,      \* the handler's record `result`
  calls,       \* the external calls the handler issued, in order, with outcomes
  disk,        \* modification time of each audio path (0: no such file)
  ttsText,     \* ttsResponse.text
  imageSaved,  \* writeFile(imagePath, imageBuffer) has completed
  pVideoPath,  \* the handler's constant `videoPath`
  muxed        \* ffmpeg has signalled "end"

pipeVars == <<postOnX, ppc, result, calls, disk, ttsText, imageSaved,
              pVideoPath, muxed>>

VARIABLES
  solo,        \* the single-purpose flow that was invoked
  spc,         \* where its handler is: the await it is suspended at
  sinput,      \* which of the input files of the combine flow exist
  scalls,      \* the external calls the handler issued, in order, with outcomes
  surl,        \* the image flow's constant `imageUrl`
  spath,       \* the output path the handler computed (imagePath, videoPath)
  swritten,    \* the file at the output path has been written
  sresult,     \* the value the handler returned
  sdisk,       \* modification time of each audio path (0: no such file)
  stools,      \* response.toolCalls of the tool invocation, as its outputs
  sresponse    \* the response fetch(imageUrl) resolved with

soloVars == <<solo, spc, sinput, scalls, surl, spath, swritten, sresult,
              sdisk, stools, sresponse>>

VARIABLES
  conn,        \* the connector two calls invoke
  now,         \* the system clock: the value Date.now() returns
  npc,         \* for each call, the await its handler is suspended at
  stamp,       \* for each call, the Date.now() reading of its naming step
  npath,       \* for each call, the output path it built
  slept,       \* for each call, the clock when its poll timer was set
  nresult,     \* for each call, the kind of result it returned
  nfile,       \* the content of each file written under the output directory
  sequential   \* call 2 was entered after call 1 had returned

pairVars == <<conn, now, npc, stamp, npath, slept, nresult, nfile, sequential>>

VARIABLES
  server,      \* which of the two MCP servers received the request
  name,        \* request.params.name
  args,        \* request.params.arguments: "absent", "empty" ({}), "given"
  mpc,         \* where the call-tool handler is
  invoked,     \* the flows the handler has called
  outcome,     \* how the flow call settled
  mcpResponse  \* the response the handler returned

mcpVars == <<server, name, args, mpc, invoked, outcome, mcpResponse>>

VARIABLES
  dpc,         \* where the handler of each of two pipeline runs is
  dresult,     \* each run's record `result`
  ddisk,       \* OUTPUT_DIR, which both runs use: mtime of each audio file
  dnow,        \* the file system's clock
  dwrote,      \* the audio file each run's speech-synthesis call wrote
  dtext,       \* each run's ttsResponse.text
  dvideo,      \* each run's constant `videoPath`
  dmuxed       \* the audio input of each run's completed ffmpeg command

duoVars == <<dpc, dresult, ddisk, dnow, dwrote, dtext, dvideo, dmuxed>>

vars == <<veoVars, pipeVars, soloVars, pairVars, mcpVars, duoVars>>

\* the variables of the flows that do not run while one flow is observed
veoRest == <<pipeVars, soloVars, pairVars, mcpVars, duoVars>>
pipeRest == <<veoVars, soloVars, pairVars, mcpVars, duoVars>>
soloRest == <<veoVars, pipeVars, pairVars, mcpVars, duoVars>>
pairRest == <<veoVars, pipeVars, soloVars, mcpVars, duoVars>>
mcpRest == <<veoVars, pipeVars, soloVars, pairVars, duoVars>>
duoRest == <<veoVars, pipeVars, soloVars, pairVars, mcpVars>>

\* the handle before the submission has answered
NoOperation == [id |-> Undef, done |-> FALSE, error |-> Undef, content |-> <<>>]
NoVideo == [media |-> FALSE, url |-> Undef]
NoResult == [videoPath |-> Undef, videoUrl |-> Undef, traceId |-> Undef,
             error |-> Undef]

\* the operation handle the service reports at its n-th contact
\* (0: the submission's answer, n: the n-th status query)
OperationAt(j, n) ==
  LET isDone == j.completes /\ n >= j.doneAt
  IN  [id      |-> j.id,
       done    |-> isDone,
       error   |-> IF isDone THEN j.error ELSE Undef,
       content |-> IF isDone THEN j.content ELSE <<>>]

\* the model each flow submits to
ModelOf(f) == IF f \in FastFlows THEN "veo-3.1-fast-generate-preview"
                                 ELSE "veo-3.1-generate-preview"

\* ai.generate({model, prompt, config}): the model and the configuration
\* entries every flow sends, for a call that leaves personGeneration out;
\* the input schema supplies "16:9" and "allow_adult" for omitted entries
Submission(f, a) ==
  [model            |-> ModelOf(f),
   aspectRatio      |-> IF a = Undef THEN "16:9" ELSE a,
   personGeneration |-> IF f = "veoVideoFlow" THEN "allow_all"
                                              ELSE "allow_adult"]

\* no submission was issued
NoRequest == [model |-> Undef, aspectRatio |-> Undef, personGeneration |-> Undef]

\* console.log(`Operation status: ${operation.done ? "Done" : "In Progress"}`)
\* is in the poll loop of the flow
LogsStatus(f) == f # "veoVideoFlow"

VeoInit ==
  /\ flow \in Flows
  /\ vpc = "start"
  /\ apiKey \in BOOLEAN
  /\ imageExists \in BOOLEAN
  /\ job \in Jobs
  /\ operation = NoOperation
  /\ video = NoVideo
  /\ videoPath = Undef
  /\ downloadUrl = Undef
  /\ dlResponse = "none"
  /\ aspectRatio \in {Undef, "9:16"}
  /\ request = NoRequest
  /\ statusLines = 0
  /\ outFile = "absent"
  /\ vresult = NoResult
  /\ submits = 0
  /\ queries = 0
  /\ fetches = 0
  /\ sinceCall = 0
  /\ callThrew = FALSE

\* the catch block's return value
FailureKeepsPath(msg) ==
  [videoPath |-> videoPath, videoUrl |-> Undef, traceId |-> Undef, error |-> msg]

FailureResult(msg) ==
  [videoPath |-> Undef, videoUrl |-> Undef, traceId |-> Undef, error |-> msg]

\* the try block's return value
SuccessResultAsDeclared(path, v, op) ==
  [videoPath |-> path,
   videoUrl  |-> IF flow \in ExtendFlows THEN Undef ELSE v.url,
   traceId   |-> op.id,
   error     |-> Undef]

SuccessResult(path, v, op) ==
  [videoPath |-> path, videoUrl |-> v.url, traceId |-> op.id, error |-> Undef]

\* a throw inside the try block: the catch block returns the failure result
FailAndRetry(msg) ==
  /\ vpc' = "start"
  /\ vresult' = FailureResult(msg)

Fail(msg) ==
  /\ vpc' = "returned"
  /\ vresult' = FailureResult(msg)

\* the condition of the poll loop: while (!operation.done)
LoopContinuesWhileNoOutput(op) == ~op.done \/ op.error # Undef

LoopContinuesBounded(op) == ~op.done /\ queries < 1

LoopContinues(op) == ~op.done

\* if (operation.error) throw ...
RemoteErrorIgnored(op) == FALSE

RemoteFailed(op) == op.error # Undef

\* content.find((p) => !!p.media): the first item that bears media, or
\* NoVideo when find returns undefined
RECURSIVE FindMediaWithUrl(_)
FindMediaWithUrl(content) ==
  IF content = <<>> THEN NoVideo
  ELSE IF Head(content).media /\ Head(content).url # Undef THEN Head(content)
  ELSE FindMediaWithUrl(Tail(content))

RECURSIVE FindMedia(_)
FindMedia(content) ==
  IF content = <<>> THEN NoVideo
  ELSE IF Head(content).media THEN Head(content)
  ELSE FindMedia(Tail(content))

\* the synchronous code from the end of the poll loop to the fetch that
\* downloadVideo issues: the error check, the search for the media item, the
\* output name, the API key check
AfterLoop(op) ==
  IF RemoteFailed(op)
    THEN /\ Fail(RemoteErrorPrefix(flow) \o op.error)
         /\ UNCHANGED <<video, videoPath, downloadUrl, fetches>>
  ELSE LET v == FindMedia(op.content)
       IN  IF v.url = Undef
             THEN /\ Fail(NotFoundMessage(flow))
                  /\ UNCHANGED <<video, videoPath, downloadUrl, fetches>>
           ELSE /\ video' = v
                /\ downloadUrl' = v.url
                /\ \E t \in 1..MaxClock : videoPath' = OutputPath(flow, t)
                /\ IF ~apiKey
                     THEN /\ Fail("Missing API key for video download. Set GEMINI_API_KEY or GOOGLE_API_KEY environment variable.")
                          /\ UNCHANGED fetches
                     ELSE /\ fetches' = fetches + 1
                          /\ vpc' = "fetch"
                          /\ UNCHANGED vresult

\* input.imagePath of the image-to-video flows
InputImagePath == "input.png"

\* if (!fs.existsSync(input.imagePath)) throw ...: the first statement of both
\* image-to-video handlers
ImageCheckedOnlyInHQ(f, exists) == f = "veo31ImageToVideoFlow" /\ ~exists

ImageMissing(f, exists) == f \in ImageFlows /\ ~exists

\* the handler up to its first remote call: the imagePath check of the
\* image-to-video flows, ensureDir, the encoding of the image (readFileSync
\* throws when the file is absent), and the submission ai.generate issues
VStart ==
  /\ vpc = "start"
  /\ \/ /\ ImageMissing(flow, imageExists)
        /\ Fail("Image file not found: " \o InputImagePath)
        /\ UNCHANGED <<submits, callThrew, request>>
     \/ /\ ~ImageMissing(flow, imageExists)
        /\ IF flow \in ImageFlows /\ ~imageExists
             THEN /\ Fail("ENOENT: no such file or directory, open '"
                          \o InputImagePath \o "'")
                  /\ callThrew' = TRUE
                  /\ UNCHANGED <<submits, request>>
             ELSE \/ /\ submits' = submits + 1
                     /\ request' = Submission(flow, aspectRatio)
                     /\ vpc' = "generate"
                     /\ UNCHANGED <<vresult, callThrew>>
                  \/ \E e \in Thrown :
                       /\ Fail(CatchMessage(e))
                       /\ callThrew' = TRUE
                       /\ UNCHANGED <<submits, request>>
  /\ UNCHANGED <<flow, aspectRatio, statusLines, dlResponse, apiKey, imageExists, job, operation, video, videoPath, downloadUrl,
                 outFile, queries, fetches, sinceCall>>
  /\ UNCHANGED veoRest

\* the answer to the submission, and the code up to the next await
VGenerate ==
  /\ vpc = "generate"
  /\ \/ \E e \in Thrown :
          /\ Fail(CatchMessage(e))
          /\ callThrew' = TRUE
          /\ UNCHANGED <<operation, video, videoPath, downloadUrl, fetches>>
     \/ /\ Fail("Expected the model to return an operation")
        /\ UNCHANGED <<operation, video, videoPath, downloadUrl, fetches, callThrew>>
     \/ LET op == OperationAt(job, 0)
        IN  /\ operation' = op
            /\ IF LoopContinues(op)
                 THEN /\ vpc' = "sleep"
                      /\ UNCHANGED <<vresult, video, videoPath, downloadUrl, fetches>>
                 ELSE AfterLoop(op)
            /\ UNCHANGED callThrew
  /\ UNCHANGED <<flow, aspectRatio, request, statusLines, dlResponse, apiKey, imageExists, job, outFile, submits, queries,
                 sinceCall>>
  /\ UNCHANGED veoRest

\* the timer of the poll loop fires and the status query is issued
VSleep ==
  /\ vpc = "sleep"
  /\ sinceCall' = sinceCall + PollInterval(flow)
  /\ queries' = IF queries <= MaxPolls THEN queries + 1 ELSE queries
  /\ vpc' = "check"
  /\ UNCHANGED <<flow, aspectRatio, request, statusLines, dlResponse, apiKey, imageExists, job, operation, video, videoPath, downloadUrl,
                 outFile, vresult, submits, fetches, callThrew>>
  /\ UNCHANGED veoRest

\* the answer to the status query, and the code up to the next await
VCheck ==
  /\ vpc = "check"
  /\ sinceCall' = 0
  /\ \/ \E e \in Thrown :
          /\ Fail(CatchMessage(e))
          /\ callThrew' = TRUE
          /\ UNCHANGED <<operation, video, videoPath, downloadUrl, fetches,
                         statusLines>>
     \/ LET op == OperationAt(job, queries)
        IN  /\ operation' = op
            /\ statusLines' = IF LogsStatus(flow) /\ statusLines <= MaxPolls
                                THEN statusLines + 1 ELSE statusLines
            /\ IF LoopContinues(op)
                 THEN /\ vpc' = "sleep"
                      /\ UNCHANGED <<vresult, video, videoPath, downloadUrl, fetches>>
                 ELSE AfterLoop(op)
            /\ UNCHANGED callThrew
  /\ UNCHANGED <<flow, aspectRatio, request, dlResponse, apiKey, imageExists, job, outFile, submits, queries>>
  /\ UNCHANGED veoRest

\* the responses fetch(videoUrl) may resolve with: OK with a body of some
\* bytes, OK with a body of no bytes, not OK, OK without a body
Responses == {"ok", "empty body", "not ok", "no body"}

\* response.statusText
StatusText(r) == IF r = "not ok" THEN "Not Found" ELSE "OK"

\* if (!response.ok || !response.body)
Refused(r) == r \in {"not ok", "no body"}

\* downloadVideo: the answer to fetch; on an OK response with a body the
\* output file is opened for writing and the body is piped into it
VFetch ==
  /\ vpc = "fetch"
  /\ \/ \E e \in Thrown :
          /\ Fail(CatchMessage(e))
          /\ callThrew' = TRUE
          /\ UNCHANGED <<outFile, dlResponse>>
     \/ \E r \in Responses :
          /\ dlResponse' = r
          /\ IF Refused(r)
               THEN /\ Fail("Failed to download video: " \o StatusText(r))
                    /\ UNCHANGED <<outFile, callThrew>>
               ELSE /\ outFile' = "empty"
                    /\ vpc' = "pipe"
                    /\ UNCHANGED <<vresult, callThrew>>
  /\ UNCHANGED <<flow, aspectRatio, request, statusLines, apiKey, imageExists, job, operation, video, videoPath, downloadUrl,
                 submits, queries, fetches, sinceCall>>
  /\ UNCHANGED veoRest

\* downloadVideo: the pipeline into the file ends; the handler returns
VPipe ==
  /\ vpc = "pipe"
  /\ \/ \E e \in Thrown :
          /\ Fail(CatchMessage(e))
          /\ callThrew' = TRUE
          /\ outFile' \in {"empty", "partial"}
     \/ /\ outFile' = "complete"
        /\ vpc' = "returned"
        /\ vresult' = SuccessResult(videoPath, video, operation)
        /\ UNCHANGED callThrew
  /\ UNCHANGED <<flow, aspectRatio, request, statusLines, dlResponse, apiKey, imageExists, job, operation, video, videoPath, downloadUrl,
                 submits, queries, fetches, sinceCall>>
  /\ UNCHANGED veoRest

VeoNext == VStart \/ VGenerate \/ VSleep \/ VCheck \/ VFetch \/ VPipe

(***************************************************************************)
(* videoWithVoiceoverFlow: image -> speech synthesis -> muxing -> publish.  *)
(***************************************************************************)
\* imageResponse.media?.url, when the model returns one
ImageUrls == {"data:image/jpeg;base64,AAAA", "https://images/1"}

\* imageUrl.startsWith("data:")
IsDataUrl(u) == u = "data:image/jpeg;base64,AAAA"

\* the audio files OUTPUT_DIR may hold (names ending in .mp3 or .wav), and
\* one audio path outside OUTPUT_DIR
OutputDirAudio == {"/output/a.mp3", "/output/b.wav"}
AudioPaths == OutputDirAudio \cup {"/elsewhere/c.mp3"}

\* ttsResponse.text
Texts == {Undef, "Audio generated", "Audio saved to /output/a.mp3",
          "File: /elsewhere/c.mp3."}

\* ttsResponse.text?.match(/\/[^\s]+\.mp3/): the match, or Undef
PathMatch(t) ==
  CASE t = "Audio saved to /output/a.mp3" -> "/output/a.mp3"
    [] t = "File: /elsewhere/c.mp3."      -> "/elsewhere/c.mp3"
    [] OTHER                              -> Undef

\* `${ttsResponse.text}`
TemplateText(t) == IF t = Undef THEN "undefined" ELSE t

\* tweetResponse.text
TweetTexts == {"", "Tweet posted: https://x.com/i/status/1"}

\* fs.existsSync(p)
Exists(d, p) == p \in DOMAIN d /\ d[p] > 0

\* readdirSync(OUTPUT_DIR) filtered to .mp3 and .wav
AudioFiles(d) == {f \in OutputDirAudio : d[f] > 0}

\* audioFiles[0].path of the list sorted by mtime, newest first (any of the
\* newest when several share the newest mtime)
AnyAudioFile(d) == {f \in OutputDirAudio : d[f] > 0}

MostRecent(d) == {f \in AudioFiles(d) : \A g \in AudioFiles(d) : d[g] <= d[f]}

\* the values audioPath may have after Method 1 and Method 2
LocateAudio(t, d) ==
  LET m == PathMatch(t)
  IN  IF m # Undef /\ Exists(d, m) THEN {m}
      ELSE IF AudioFiles(d) # {} THEN MostRecent(d)
      ELSE {m}

\* if (!audioPath || !fs.existsSync(audioPath)) throw ...
AudioAlwaysFound(d, p) == FALSE

AudioMissing(d, p) == p = Undef \/ ~Exists(d, p)

\* path.join(OUTPUT_DIR, `video_${Date.now()}.mp4`)
VideoName(t) == "output/video_" \o ToString(t) \o ".mp4"

\* if (input.postOnX), after the schema's default(false)
PublishAlways(x) == TRUE

PublishRequested(x) == x = "true"

\* the record `result` as constructed
EmptyResult == [imageUrl |-> Undef, audioPath |-> Undef, videoPath |-> Undef,
                tweetStatus |-> Undef, error |-> Undef]

\* new Error(m)
Err(m) == [isError |-> TRUE, message |-> m]

\* no value was thrown
NoThrow == [isError |-> FALSE, message |-> "<none>"]

\* the handler issues an external call
Issue(cs, op) == Append(cs, [op |-> op, st |-> "pending", err |-> NoThrow])

\* the call the handler awaits resolves ("ok") or rejects ("threw")
Answer(cs, st, e) == [cs EXCEPT ![Len(cs)] = [op |-> @.op, st |-> st, err |-> e]]

\* result.imageUrl = imageUrl
ImageUrlNotRecorded(r, u) == r

RecordImageUrl(r, u) == [r EXCEPT !.imageUrl = u]

\* result.audioPath = audioPath
AudioPathNotRecorded(r, p) == r

RecordAudioPath(r, p) == [r EXCEPT !.audioPath = p]

\* result.videoPath = videoPath
RecordVideoPath(r, p) == [r EXCEPT !.videoPath = p]

\* result.tweetStatus = tweetResponse.text || "Posted to X successfully"
RecordTweetStatus(r, t) ==
  [r EXCEPT !.tweetStatus = IF t = "" THEN "Posted to X successfully" ELSE t]

\* catch: result.error = ...; return result
CatchFreshRecord(r, e) == [EmptyResult EXCEPT !.error = CatchMessage(e)]

CatchKeepsError(r, e) == r

CatchMarksTweet(r, e) ==
  [r EXCEPT !.error = CatchMessage(e), !.tweetStatus = "Not posted"]

PipelineCatch(r, e) == [r EXCEPT !.error = CatchMessage(e)]

\* e is thrown inside the try block while the record is r
Throw(r, e) ==
  /\ ppc' = "returned"
  /\ result' = PipelineCatch(r, e)

PipeInit ==
  /\ postOnX \in {"true", "false", "omitted"}
  /\ ppc = "start"
  /\ result = EmptyResult
  /\ calls = <<>>
  /\ disk \in [AudioPaths -> 0..MaxMtime]
  /\ ttsText = Undef
  /\ imageSaved = FALSE
  /\ pVideoPath = Undef
  /\ muxed = FALSE

\* the Veo connectors are not running
VeoIdle ==
  /\ flow = "veoVideoFlow"
  /\ vpc = "idle"
  /\ apiKey = TRUE
  /\ imageExists = TRUE
  /\ job = [id |-> "operations/a", completes |-> FALSE, doneAt |-> 0,
            error |-> Undef, content |-> <<>>]
  /\ operation = NoOperation
  /\ video = NoVideo
  /\ videoPath = Undef
  /\ downloadUrl = Undef
  /\ dlResponse = "none"
  /\ aspectRatio = Undef
  /\ request = NoRequest
  /\ statusLines = 0
  /\ outFile = "absent"
  /\ vresult = NoResult
  /\ submits = 0
  /\ queries = 0
  /\ fetches = 0
  /\ sinceCall = 0
  /\ callThrew = FALSE

\* the pipeline is not running
PipeIdle ==
  /\ postOnX = "omitted"
  /\ ppc = "idle"
  /\ result = EmptyResult
  /\ calls = <<>>
  /\ disk = [p \in AudioPaths |-> 0]
  /\ ttsText = Undef
  /\ imageSaved = FALSE
  /\ pVideoPath = Undef
  /\ muxed = FALSE

\* the handler is entered and issues Step 1's ai.generate
PStart ==
  /\ ppc = "start"
  /\ calls' = Issue(calls, "imageGen")
  /\ ppc' = "imageGen"
  /\ UNCHANGED <<postOnX, result, disk, ttsText, imageSaved, pVideoPath, muxed>>
  /\ UNCHANGED pipeRest

\* Step 1: the image model answers; the URL is recorded and checked
PImageGen ==
  /\ ppc = "imageGen"
  /\ \/ \E e \in Thrown :
          /\ Throw(result, e)
          /\ calls' = Answer(calls, "threw", e)
     \/ \E u \in ImageUrls \cup {Undef} :
          LET r == RecordImageUrl(result, u)
          IN  IF u = Undef
                THEN /\ Throw(r, Err("Failed to generate image"))
                     /\ calls' = Answer(calls, "ok", NoThrow)
                ELSE /\ result' = r
                     /\ calls' = Issue(Answer(calls, "ok", NoThrow), "ensureDir")
                     /\ ppc' = "ensureDir"
  /\ UNCHANGED <<postOnX, disk, ttsText, imageSaved, pVideoPath, muxed>>
  /\ UNCHANGED pipeRest

\* ensureDir answers; a data URL is decoded, any other URL is fetched
PEnsureDir ==
  /\ ppc = "ensureDir"
  /\ \/ \E e \in Thrown :
          /\ Throw(result, e)
          /\ calls' = Answer(calls, "threw", e)
     \/ /\ IF IsDataUrl(result.imageUrl)
             THEN /\ calls' = Issue(Answer(calls, "ok", NoThrow), "writeFile")
                  /\ ppc' = "writeFile"
             ELSE /\ calls' = Issue(Answer(calls, "ok", NoThrow), "fetch")
                  /\ ppc' = "fetch"
        /\ UNCHANGED result
  /\ UNCHANGED <<postOnX, disk, ttsText, imageSaved, pVideoPath, muxed>>
  /\ UNCHANGED pipeRest

\* fetch(imageUrl) answers; the response's status is not looked at
PFetchImage ==
  /\ ppc = "fetch"
  /\ \/ \E e \in Thrown :
          /\ Throw(result, e)
          /\ calls' = Answer(calls, "threw", e)
     \/ /\ calls' = Issue(Answer(calls, "ok", NoThrow), "arrayBuffer")
        /\ ppc' = "arrayBuffer"
        /\ UNCHANGED result
  /\ UNCHANGED <<postOnX, disk, ttsText, imageSaved, pVideoPath, muxed>>
  /\ UNCHANGED pipeRest

\* response.arrayBuffer() answers
PArrayBuffer ==
  /\ ppc = "arrayBuffer"
  /\ \/ \E e \in Thrown :
          /\ Throw(result, e)
          /\ calls' = Answer(calls, "threw", e)
     \/ /\ calls' = Issue(Answer(calls, "ok", NoThrow), "writeFile")
        /\ ppc' = "writeFile"
        /\ UNCHANGED result
  /\ UNCHANGED <<postOnX, disk, ttsText, imageSaved, pVideoPath, muxed>>
  /\ UNCHANGED pipeRest

\* writeFile(imagePath, imageBuffer) answers; Step 2 asks for the MCP tools
PWriteFile ==
  /\ ppc = "writeFile"
  /\ \/ \E e \in Thrown :
          /\ Throw(result, e)
          /\ calls' = Answer(calls, "threw", e)
          /\ UNCHANGED imageSaved
     \/ /\ imageSaved' = TRUE
        /\ calls' = Issue(Answer(calls, "ok", NoThrow), "getActiveTools")
        /\ ppc' = "getActiveTools"
        /\ UNCHANGED result
  /\ UNCHANGED <<postOnX, disk, ttsText, pVideoPath, muxed>>
  /\ UNCHANGED pipeRest

\* mcpHost.getActiveTools answers; the speech-synthesis invocation is issued
PGetActiveTools ==
  /\ ppc = "getActiveTools"
  /\ \/ \E e \in Thrown :
          /\ Throw(result, e)
          /\ calls' = Answer(calls, "threw", e)
     \/ /\ calls' = Issue(Answer(calls, "ok", NoThrow), "ttsGen")
        /\ ppc' = "ttsGen"
        /\ UNCHANGED result
  /\ UNCHANGED <<postOnX, disk, ttsText, imageSaved, pVideoPath, muxed>>
  /\ UNCHANGED pipeRest

\* Step 2: the speech-synthesis invocation answers (its tool may have written
\* an audio file); the audio path is located, recorded and checked, and Step 3
\* starts ffmpeg
PTtsGen ==
  /\ ppc = "ttsGen"
  /\ \/ \E e \in Thrown :
          /\ Throw(result, e)
          /\ calls' = Answer(calls, "threw", e)
          /\ UNCHANGED <<disk, ttsText, pVideoPath>>
     \/ \E t \in Texts, w \in AudioPaths \cup {Undef} :
          LET d == IF w = Undef THEN disk
                   ELSE [disk EXCEPT ![w] = MaxMtime + 1]
          IN  /\ disk' = d
              /\ ttsText' = t
              /\ \E p \in LocateAudio(t, d) :
                   LET r == RecordAudioPath(result, p)
                   IN  IF AudioMissing(d, p)
                         THEN /\ Throw(r, Err("Failed to generate or locate audio file. TTS Response: "
                                              \o TemplateText(t)))
                              /\ calls' = Answer(calls, "ok", NoThrow)
                              /\ UNCHANGED pVideoPath
                         ELSE /\ result' = r
                              /\ \E c \in 1..MaxClock : pVideoPath' = VideoName(c)
                              /\ calls' = Issue(Answer(calls, "ok", NoThrow), "ffmpeg")
                              /\ ppc' = "ffmpeg"
  /\ UNCHANGED <<postOnX, imageSaved, muxed>>
  /\ UNCHANGED pipeRest

\* Step 3: ffmpeg signals "end" or "error"; the video path is recorded and
\* Step 4 issues the tweet invocation if publication was requested
PFfmpeg ==
  /\ ppc = "ffmpeg"
  /\ \/ \E e \in Thrown :
          /\ Throw(result, e)
          /\ calls' = Answer(calls, "threw", e)
          /\ UNCHANGED muxed
     \/ /\ muxed' = TRUE
        /\ result' = RecordVideoPath(result, pVideoPath)
        /\ IF PublishRequested(postOnX)
             THEN /\ calls' = Issue(Answer(calls, "ok", NoThrow), "tweetGen")
                  /\ ppc' = "tweetGen"
             ELSE /\ calls' = Answer(calls, "ok", NoThrow)
                  /\ ppc' = "returned"
  /\ UNCHANGED <<postOnX, disk, ttsText, imageSaved, pVideoPath>>
  /\ UNCHANGED pipeRest

\* Step 4: the tweet invocation answers; the handler returns the record
PTweetGen ==
  /\ ppc = "tweetGen"
  /\ \/ \E e \in Thrown :
          /\ Throw(result, e)
          /\ calls' = Answer(calls, "threw", e)
     \/ \E t \in TweetTexts :
          /\ result' = RecordTweetStatus(result, t)
          /\ calls' = Answer(calls, "ok", NoThrow)
          /\ ppc' = "returned"
  /\ UNCHANGED <<postOnX, disk, ttsText, imageSaved, pVideoPath, muxed>>
  /\ UNCHANGED pipeRest

PipeNext ==
  \/ PStart \/ PImageGen \/ PEnsureDir \/ PFetchImage \/ PArrayBuffer
  \/ PWriteFile \/ PGetActiveTools \/ PTtsGen \/ PFfmpeg \/ PTweetGen

(***************************************************************************)
(* The single-purpose flows: imageGenerationFlow,                          *)
(* combineImageAudioToVideoFlow, textToSpeechFlow and postTweetFlow.       *)
(***************************************************************************)
SoloFlows == {"imageGenerationFlow", "combineImageAudioToVideoFlow",
              "textToSpeechFlow", "postTweetFlow"}

\* input.prompt, input.imagePath and input.audioPath
Prompt == "a cat"
FramePath == "/in/frame.jpg"
VoicePath == "/in/voice.mp3"

\* path.join(OUTPUT_DIR, `image_${Date.now()}.jpg`)
ImageName(t) == "output/image_" \o ToString(t) \o ".jpg"

\* path.join(OUTPUT_DIR, `video_${Date.now()}.mp4`) of the combine flow
CombinedName(t) == "output/video_" \o ToString(t) \o ".mp4"

\* the message of the error fluent-ffmpeg emits
FfmpegErrors == {Err("ffmpeg exited with code 1")}

\* toolCall.output: a string, an object ({file: value} or {}), or undefined
ToolTexts == {"File saved to: /output/a.mp3",
              "Success. File saved as: /output/a.mp3. Voice used: Adam",
              "path: out/b.mp3",
              "Audio generated"}
ToolOutputs == {[type |-> "string", value |-> t] : t \in ToolTexts}
               \cup {[type |-> "object", value |-> v] : v \in {"/output/a.mp3", Undef}}
               \cup {[type |-> "undefined", value |-> Undef]}

\* the .mp3 files the output directory may hold when the tool invocation
\* of textToSpeechFlow answers
TtsDirFiles == {"/output/a.mp3", "/output/old.mp3"}

\* response.toolCalls (absent or empty: <<>>), as the outputs of its entries
ToolCallLists == SeqsUpTo(ToolOutputs, MaxToolCalls)

\* JSON.stringify(toolOutput) of an object or of undefined
JsonStringify(o) ==
  IF o.type = "undefined" THEN Undef
  ELSE IF o.value = Undef THEN "{}"
  ELSE "{\"file\":\"" \o o.value \o "\"}"

\* typeof toolOutput === 'string' ? toolOutput : JSON.stringify(toolOutput)
OutputText(o) == IF o.type = "string" THEN o.value ELSE JsonStringify(o)

\* outputText.match(/(?:saved to|path|file):\s*([^\s\n]+\.mp3)/i) ||
\* outputText.match(/\/[^\s\n]+\.mp3/), then pathMatch[1] || pathMatch[0];
\* Undef when neither expression matches
ToolPathMatch(text) ==
  CASE text = "File saved to: /output/a.mp3" -> "/output/a.mp3"
    [] text = "Success. File saved as: /output/a.mp3. Voice used: Adam"
                                              -> "/output/a.mp3"
    [] text = "path: out/b.mp3"               -> "out/b.mp3"
    [] text = "{\"file\":\"/output/a.mp3\"}"  -> "/output/a.mp3"
    [] OTHER                                  -> Undef

\* the value of sresult while the handler has not returned
NotReturned == [returned |-> FALSE]

\* the return value of each handler's catch block
CatchWrapsMessage(f, e) ==
  [videoPath |-> Undef, imagePath |-> Undef, audioPath |-> Undef,
   result |-> Undef, success |-> FALSE,
   error |-> "Failed to combine: " \o e.message]

SoloCatch(f, e) ==
  CASE f = "imageGenerationFlow" ->
         [imagePath |-> Undef, success |-> FALSE, prompt |-> Prompt]
    [] f = "combineImageAudioToVideoFlow" ->
         [videoPath |-> Undef, success |-> FALSE,
          error |-> IF e.isError THEN e.message ELSE "Unknown error occurred"]
    [] f = "textToSpeechFlow" ->
         [audioPath |-> Undef, success |-> FALSE,
          error |-> IF e.isError THEN e.message ELSE "Failed to generate speech"]
    [] f = "postTweetFlow" ->
         [success |-> FALSE, tweetId |-> Undef, result |-> Undef,
          error |-> IF e.isError THEN e.message ELSE "Failed to post tweet"]

\* a value thrown in the handler's body leaves the handler (its promise
\* rejects): never, the whole body is one try block and no catch block throws
EscapesUnlessError(f, e) == ~e.isError

Escapes(f, e) == FALSE

\* the handler returns r
SReturn(r) ==
  /\ spc' = "returned"
  /\ sresult' = r

\* e is thrown inside the handler's body
SThrow(e) ==
  IF Escapes(solo, e)
    THEN /\ spc' = "rejected"
         /\ UNCHANGED sresult
    ELSE SReturn(SoloCatch(solo, e))

SoloInit ==
  /\ solo \in SoloFlows
  /\ spc = "start"
  /\ sinput \in [image : BOOLEAN, audio : BOOLEAN]
  /\ solo # "combineImageAudioToVideoFlow" => sinput = [image |-> TRUE, audio |-> TRUE]
  /\ scalls = <<>>
  /\ surl = Undef
  /\ spath = Undef
  /\ swritten = FALSE
  /\ sresult = NotReturned
  /\ sdisk \in [TtsDirFiles -> 0..MaxMtime]
  /\ solo # "textToSpeechFlow" => sdisk = [p \in TtsDirFiles |-> 0]
  /\ stools = <<>>
  /\ sresponse = "none"

\* no single-purpose flow is running
SoloIdle ==
  /\ solo = "none"
  /\ spc = "idle"
  /\ sinput = [image |-> TRUE, audio |-> TRUE]
  /\ scalls = <<>>
  /\ surl = Undef
  /\ spath = Undef
  /\ swritten = FALSE
  /\ sresult = NotReturned
  /\ sdisk = [p \in TtsDirFiles |-> 0]
  /\ stools = <<>>
  /\ sresponse = "none"

\* imageGenerationFlow: the handler is entered and issues ai.generate
IStart ==
  /\ solo = "imageGenerationFlow"
  /\ spc = "start"
  /\ scalls' = Issue(scalls, "generate")
  /\ spc' = "generate"
  /\ UNCHANGED <<solo, sinput, sdisk, stools, sresponse, surl, spath, swritten, sresult>>
  /\ UNCHANGED soloRest

\* the image model answers; without a media URL the handler returns a failure
IGenerate ==
  /\ solo = "imageGenerationFlow"
  /\ spc = "generate"
  /\ \/ \E e \in Thrown :
          /\ SThrow(e)
          /\ scalls' = Answer(scalls, "threw", e)
          /\ UNCHANGED surl
     \/ \E u \in ImageUrls \cup {Undef} :
          /\ surl' = u
          /\ IF u = Undef
               THEN /\ SReturn([imagePath |-> Undef, success |-> FALSE,
                                prompt |-> Prompt])
                    /\ scalls' = Answer(scalls, "ok", NoThrow)
               ELSE /\ scalls' = Issue(Answer(scalls, "ok", NoThrow), "ensureDir")
                    /\ spc' = "ensureDir"
                    /\ UNCHANGED sresult
  /\ UNCHANGED <<solo, sinput, sdisk, stools, sresponse, spath, swritten>>
  /\ UNCHANGED soloRest

\* ensureDir answers; the output name is chosen; a data URL is decoded, any
\* other URL is fetched
IEnsureDir ==
  /\ solo = "imageGenerationFlow"
  /\ spc = "ensureDir"
  /\ \/ \E e \in Thrown :
          /\ SThrow(e)
          /\ scalls' = Answer(scalls, "threw", e)
          /\ UNCHANGED spath
     \/ /\ \E t \in 1..MaxClock : spath' = ImageName(t)
        /\ IF IsDataUrl(surl)
             THEN /\ scalls' = Issue(Answer(scalls, "ok", NoThrow), "writeFile")
                  /\ spc' = "writeFile"
             ELSE /\ scalls' = Issue(Answer(scalls, "ok", NoThrow), "fetch")
                  /\ spc' = "fetch"
        /\ UNCHANGED sresult
  /\ UNCHANGED <<solo, sinput, sdisk, stools, sresponse, surl, swritten>>
  /\ UNCHANGED soloRest

\* fetch(imageUrl) answers, with an OK status or not; the response's status
\* is not looked at
IFetch ==
  /\ solo = "imageGenerationFlow"
  /\ spc = "fetch"
  /\ \/ \E e \in Thrown :
          /\ SThrow(e)
          /\ scalls' = Answer(scalls, "threw", e)
          /\ UNCHANGED sresponse
     \/ /\ sresponse' \in {"ok", "not ok"}
        /\ scalls' = Issue(Answer(scalls, "ok", NoThrow), "arrayBuffer")
        /\ spc' = "arrayBuffer"
        /\ UNCHANGED sresult
  /\ UNCHANGED <<solo, sinput, sdisk, stools, surl, spath, swritten>>
  /\ UNCHANGED soloRest

\* response.arrayBuffer() answers
IArrayBuffer ==
  /\ solo = "imageGenerationFlow"
  /\ spc = "arrayBuffer"
  /\ \/ \E e \in Thrown :
          /\ SThrow(e)
          /\ scalls' = Answer(scalls, "threw", e)
     \/ /\ scalls' = Issue(Answer(scalls, "ok", NoThrow), "writeFile")
        /\ spc' = "writeFile"
        /\ UNCHANGED sresult
  /\ UNCHANGED <<solo, sinput, sdisk, stools, sresponse, surl, spath, swritten>>
  /\ UNCHANGED soloRest

\* writeFile(imagePath, imageBuffer) answers; the handler returns
IWriteFile ==
  /\ solo = "imageGenerationFlow"
  /\ spc = "writeFile"
  /\ \/ \E e \in Thrown :
          /\ SThrow(e)
          /\ scalls' = Answer(scalls, "threw", e)
          /\ UNCHANGED swritten
     \/ /\ swritten' = TRUE
        /\ scalls' = Answer(scalls, "ok", NoThrow)
        /\ SReturn([imagePath |-> spath, success |-> TRUE, prompt |-> Prompt])
  /\ UNCHANGED <<solo, sinput, sdisk, stools, sresponse, surl, spath>>
  /\ UNCHANGED soloRest

\* if (!fs.existsSync(input.imagePath)) ...; if (!fs.existsSync(input.audioPath))
\* ...: the error of the first check that fails, Undef when both files exist
OnlyImageChecked(in) ==
  IF ~in.image THEN "Image file not found: " \o FramePath ELSE Undef

MissingInput(in) ==
  IF ~in.image THEN "Image file not found: " \o FramePath
  ELSE IF ~in.audio THEN "Audio file not found: " \o VoicePath
  ELSE Undef

\* combineImageAudioToVideoFlow: the two existsSync checks, then ensureDir
CStart ==
  /\ solo = "combineImageAudioToVideoFlow"
  /\ spc = "start"
  /\ IF MissingInput(sinput) # Undef
       THEN /\ SReturn([videoPath |-> Undef, success |-> FALSE,
                        error |-> MissingInput(sinput)])
            /\ UNCHANGED scalls
     ELSE /\ scalls' = Issue(scalls, "ensureDir")
          /\ spc' = "ensureDir"
          /\ UNCHANGED sresult
  /\ UNCHANGED <<solo, sinput, sdisk, stools, sresponse, surl, spath, swritten>>
  /\ UNCHANGED soloRest

\* ensureDir answers; the output name is chosen and ffmpeg is started
CEnsureDir ==
  /\ solo = "combineImageAudioToVideoFlow"
  /\ spc = "ensureDir"
  /\ \/ \E e \in Thrown :
          /\ SThrow(e)
          /\ scalls' = Answer(scalls, "threw", e)
          /\ UNCHANGED spath
     \/ /\ \E t \in 1..MaxClock : spath' = CombinedName(t)
        /\ scalls' = Issue(Answer(scalls, "ok", NoThrow), "ffmpeg")
        /\ spc' = "ffmpeg"
        /\ UNCHANGED sresult
  /\ UNCHANGED <<solo, sinput, sdisk, stools, sresponse, surl, swritten>>
  /\ UNCHANGED soloRest

\* ffmpeg signals "end" or "error"; the handler returns
CFfmpeg ==
  /\ solo = "combineImageAudioToVideoFlow"
  /\ spc = "ffmpeg"
  /\ \/ \E e \in Thrown \cup FfmpegErrors :
          /\ SThrow(e)
          /\ scalls' = Answer(scalls, "threw", e)
          /\ UNCHANGED swritten
     \/ /\ swritten' = TRUE
        /\ scalls' = Answer(scalls, "ok", NoThrow)
        /\ SReturn([videoPath |-> spath, success |-> TRUE, error |-> Undef])
  /\ UNCHANGED <<solo, sinput, sdisk, stools, sresponse, surl, spath>>
  /\ UNCHANGED soloRest

\* textToSpeechFlow and postTweetFlow: the handler is entered and asks the
\* MCP host for its tools
MStart ==
  /\ solo \in {"textToSpeechFlow", "postTweetFlow"}
  /\ spc = "start"
  /\ scalls' = Issue(scalls, "getActiveTools")
  /\ spc' = "getActiveTools"
  /\ UNCHANGED <<solo, sinput, sdisk, stools, sresponse, surl, spath, swritten, sresult>>
  /\ UNCHANGED soloRest

\* mcpHost.getActiveTools answers; the tool invocation is issued
MGetActiveTools ==
  /\ solo \in {"textToSpeechFlow", "postTweetFlow"}
  /\ spc = "getActiveTools"
  /\ \/ \E e \in Thrown :
          /\ SThrow(e)
          /\ scalls' = Answer(scalls, "threw", e)
     \/ /\ scalls' = Issue(Answer(scalls, "ok", NoThrow), "generate")
        /\ spc' = "generate"
        /\ UNCHANGED sresult
  /\ UNCHANGED <<solo, sinput, sdisk, stools, sresponse, surl, spath, swritten>>
  /\ UNCHANGED soloRest

\* const toolCall = response.toolCalls[0]; the text the path is looked for in
\* is its output, stringified when it is not a string
TextOfLastEntry(toolCalls) == OutputText(toolCalls[Len(toolCalls)])

ExtractionText(toolCalls) == OutputText(toolCalls[1])

\* `Could not extract file path from tool output: ${outputText}`
ExtractionErrorWithoutText(outputText) ==
  "Could not extract file path from tool output"

ExtractionError(outputText) ==
  "Could not extract file path from tool output: " \o outputText

\* textToSpeechFlow: the tool invocation answers; the path is extracted from
\* the output of the first structured call entry
TGenerate ==
  /\ solo = "textToSpeechFlow"
  /\ spc = "generate"
  /\ \/ \E e \in Thrown :
          /\ SThrow(e)
          /\ scalls' = Answer(scalls, "threw", e)
          /\ UNCHANGED <<spath, stools>>
     \/ \E toolCalls \in ToolCallLists :
          /\ stools' = toolCalls
          /\ scalls' = Answer(scalls, "ok", NoThrow)
          /\ IF toolCalls = <<>>
               THEN /\ SReturn([audioPath |-> Undef, success |-> FALSE,
                                error |-> "No tool calls were made"])
                    /\ UNCHANGED spath
             ELSE LET outputText == ExtractionText(toolCalls)
                      pathMatch  == ToolPathMatch(outputText)
                  IN  IF outputText = Undef
                        THEN /\ SThrow(Err("Cannot read properties of undefined (reading 'match')"))
                             /\ UNCHANGED spath
                      ELSE IF pathMatch # Undef
                        THEN /\ spath' = pathMatch
                             /\ SReturn([audioPath |-> pathMatch,
                                         success |-> TRUE, error |-> Undef])
                      ELSE /\ SReturn([audioPath |-> Undef, success |-> FALSE,
                                       error |-> ExtractionError(outputText)])
                           /\ UNCHANGED spath
  /\ UNCHANGED <<solo, sinput, sdisk, sresponse, surl, swritten>>
  /\ UNCHANGED soloRest

\* postTweetFlow: the tool invocation answers; the output of the first
\* structured call entry is the result
WGenerate ==
  /\ solo = "postTweetFlow"
  /\ spc = "generate"
  /\ \/ \E e \in Thrown :
          /\ SThrow(e)
          /\ scalls' = Answer(scalls, "threw", e)
          /\ UNCHANGED stools
     \/ \E toolCalls \in ToolCallLists :
          /\ stools' = toolCalls
          /\ scalls' = Answer(scalls, "ok", NoThrow)
          /\ IF toolCalls = <<>>
               THEN SReturn([success |-> FALSE, tweetId |-> Undef,
                             result |-> Undef,
                             error |-> "No tool calls were made"])
               ELSE SReturn([success |-> TRUE, tweetId |-> Undef,
                             result |-> OutputText(toolCalls[1]),
                             error |-> Undef])
  /\ UNCHANGED <<solo, sinput, sdisk, sresponse, surl, spath, swritten>>
  /\ UNCHANGED soloRest

SoloNext ==
  \/ IStart \/ IGenerate \/ IEnsureDir \/ IFetch \/ IArrayBuffer \/ IWriteFile
  \/ CStart \/ CEnsureDir \/ CFfmpeg
  \/ MStart \/ MGetActiveTools \/ TGenerate \/ WGenerate

(***************************************************************************)
(* Two calls of one connector in one process, sharing the clock and the    *)
(* output directory.  Call 1 is entered first; call 2 is entered at any    *)
(* later moment, while call 1 is suspended or after it has returned.       *)
(***************************************************************************)
Calls == {1, 2}

\* the connectors that name their output by Date.now()
Connectors == Flows \cup {"imageGenerationFlow"}

\* the bytes call c writes to its output file
Data(c) == "call " \o ToString(c)

\* the output path of call c when its naming step reads t from Date.now()
PathWithCallSuffix(c, t) ==
  (IF conn \in Flows THEN OutputPath(conn, t) ELSE ImageName(t))
    \o "." \o ToString(c)

PairPath(c, t) == IF conn \in Flows THEN OutputPath(conn, t) ELSE ImageName(t)

\* the other call
Other(c) == 3 - c

PairInit ==
  /\ conn \in Connectors
  /\ now = 1
  /\ npc = [c \in Calls |-> "idle"]
  /\ stamp = [c \in Calls |-> 0]
  /\ npath = [c \in Calls |-> Undef]
  /\ slept = [c \in Calls |-> 0]
  /\ nresult = [c \in Calls |-> "pending"]
  /\ nfile = <<>>
  /\ sequential = FALSE

\* no pair of calls is running
PairIdle ==
  /\ conn = "none"
  /\ now = 1
  /\ npc = [c \in Calls |-> "off"]
  /\ stamp = [c \in Calls |-> 0]
  /\ npath = [c \in Calls |-> Undef]
  /\ slept = [c \in Calls |-> 0]
  /\ nresult = [c \in Calls |-> "pending"]
  /\ nfile = <<>>
  /\ sequential = FALSE

\* call c moves to position p
Goto(c, p) == npc' = [npc EXCEPT ![c] = p]

\* a throw inside call c's try block: its catch block returns the failure result
NFail(c) ==
  /\ Goto(c, "returned")
  /\ nresult' = [nresult EXCEPT ![c] = "failure"]

\* call c's try block returns the success result
NSucceed(c) ==
  /\ Goto(c, "returned")
  /\ nresult' = [nresult EXCEPT ![c] = "success"]

\* the naming step of call c: Date.now() is read and the output path is built
NName(c) ==
  /\ stamp' = [stamp EXCEPT ![c] = now]
  /\ npath' = [npath EXCEPT ![c] = PairPath(c, now)]

\* the file at path p is opened for writing: it is created or truncated
Opened(p) == (p :> "partial") @@ nfile

\* call c has finished writing the file at p; when the other call wrote to
\* the same file in the meantime the bytes of the two may be interleaved
Written(c, p) ==
  LET overlap == \/ nfile[p] # "partial"
                 \/ /\ npc[Other(c)] \in {"pipe", "writeFile"}
                    /\ npath[Other(c)] = p
  IN  {(p :> d) @@ nfile :
         d \in IF overlap THEN {Data(c), "mixed"} ELSE {Data(c)}}

\* the system clock advances by one millisecond
NTick ==
  /\ conn # "none"
  /\ now < MaxClock
  /\ now' = now + 1
  /\ UNCHANGED <<conn, npc, stamp, npath, slept, nresult, nfile, sequential>>
  /\ UNCHANGED pairRest

\* call c is entered and runs up to the await of ai.generate
NStart(c) ==
  /\ npc[c] = "idle"
  /\ c = 2 => npc[1] # "idle"
  /\ Goto(c, "generate")
  /\ sequential' = IF c = 2 THEN npc[1] = "returned" ELSE sequential
  /\ UNCHANGED <<conn, now, stamp, npath, slept, nresult, nfile>>
  /\ UNCHANGED pairRest

\* a Veo connector, after its poll loop has ended: the job failed or exposes
\* no media (failure), or the output is named and the download is started
NAfterLoop(c) ==
  \/ /\ NFail(c)
     /\ UNCHANGED <<stamp, npath>>
  \/ /\ NName(c)
     /\ Goto(c, "fetch")
     /\ UNCHANGED nresult

\* ai.generate answers call c
NGenerate(c) ==
  /\ npc[c] = "generate"
  /\ \/ /\ NFail(c)
        /\ UNCHANGED <<stamp, npath, slept>>
     \/ /\ conn = "imageGenerationFlow"
        /\ Goto(c, "ensureDir")
        /\ UNCHANGED <<stamp, npath, slept, nresult>>
     \/ /\ conn \in Flows
        /\ \/ /\ NAfterLoop(c)
              /\ UNCHANGED slept
           \/ /\ Goto(c, "sleep")
              /\ slept' = [slept EXCEPT ![c] = now]
              /\ UNCHANGED <<stamp, npath, nresult>>
  /\ UNCHANGED <<conn, now, nfile, sequential>>
  /\ UNCHANGED pairRest

\* the poll timer of call c fires, not before the clock has advanced, and
\* the status query is issued
NWake(c) ==
  /\ npc[c] = "sleep"
  /\ now > slept[c]
  /\ Goto(c, "check")
  /\ UNCHANGED <<conn, now, stamp, npath, slept, nresult, nfile, sequential>>
  /\ UNCHANGED pairRest

\* the status query answers call c
NCheck(c) ==
  /\ npc[c] = "check"
  /\ \/ /\ NFail(c)
        /\ UNCHANGED <<stamp, npath, slept>>
     \/ /\ NAfterLoop(c)
        /\ UNCHANGED slept
     \/ /\ Goto(c, "sleep")
        /\ slept' = [slept EXCEPT ![c] = now]
        /\ UNCHANGED <<stamp, npath, nresult>>
  /\ UNCHANGED <<conn, now, nfile, sequential>>
  /\ UNCHANGED pairRest

\* downloadVideo of call c: fetch answers; on an OK response the output file
\* is opened and the body is piped into it
NFetch(c) ==
  /\ npc[c] = "fetch"
  /\ \/ /\ NFail(c)
        /\ UNCHANGED nfile
     \/ /\ nfile' = Opened(npath[c])
        /\ Goto(c, "pipe")
        /\ UNCHANGED nresult
  /\ UNCHANGED <<conn, now, stamp, npath, slept, sequential>>
  /\ UNCHANGED pairRest

\* downloadVideo of call c: the pipeline ends
NPipe(c) ==
  /\ npc[c] = "pipe"
  /\ \/ /\ NFail(c)
        /\ UNCHANGED nfile
     \/ /\ nfile' \in Written(c, npath[c])
        /\ NSucceed(c)
  /\ UNCHANGED <<conn, now, stamp, npath, slept, sequential>>
  /\ UNCHANGED pairRest

\* the image flow, call c: ensureDir answers; the output is named; the image
\* bytes are decoded from a data URL, or the URL is fetched
NEnsureDir(c) ==
  /\ npc[c] = "ensureDir"
  /\ \/ /\ NFail(c)
        /\ UNCHANGED <<stamp, npath, nfile>>
     \/ /\ NName(c)
        /\ \/ /\ Goto(c, "writeFile")
              /\ nfile' = Opened(PairPath(c, now))
           \/ /\ Goto(c, "download")
              /\ UNCHANGED nfile
        /\ UNCHANGED nresult
  /\ UNCHANGED <<conn, now, slept, sequential>>
  /\ UNCHANGED pairRest

\* the image flow, call c: fetch and arrayBuffer answer; writeFile is issued
NDownload(c) ==
  /\ npc[c] = "download"
  /\ \/ /\ NFail(c)
        /\ UNCHANGED nfile
     \/ /\ Goto(c, "writeFile")
        /\ nfile' = Opened(npath[c])
        /\ UNCHANGED nresult
  /\ UNCHANGED <<conn, now, stamp, npath, slept, sequential>>
  /\ UNCHANGED pairRest

\* the image flow, call c: writeFile answers
NWriteFile(c) ==
  /\ npc[c] = "writeFile"
  /\ \/ /\ NFail(c)
        /\ UNCHANGED nfile
     \/ /\ nfile' \in Written(c, npath[c])
        /\ NSucceed(c)
  /\ UNCHANGED <<conn, now, stamp, npath, slept, sequential>>
  /\ UNCHANGED pairRest

PairNext ==
  \/ NTick
  \/ \E c \in Calls :
       \/ NStart(c) \/ NGenerate(c) \/ NWake(c) \/ NCheck(c) \/ NFetch(c)
       \/ NPipe(c) \/ NEnsureDir(c) \/ NDownload(c) \/ NWriteFile(c)

\* two calls of one connector, no other flow running
(***************************************************************************)
(* The call-tool request handler of the two MCP servers.                   *)
(***************************************************************************)
Servers == {"mcp-server", "mcp-server-short"}

\* the tool names a request may carry
ToolNames == {"generate_image", "combine_image_audio_to_video",
              "text_to_speech", "post_tweet",
              "veo31_text_to_video", "veo31_fast_text_to_video",
              "veo31_image_to_video", "veo31_fast_image_to_video",
              "veo31_video_extension", "veo31_fast_video_extension",
              "no_such_tool"}

\* request.params.arguments: missing, an object without the tool's required
\* fields, an object with them
Arguments == {"absent", "empty", "given"}

\* switch (name): the flow the case of this name calls, Undef for default
DispatchDefaultsToImage(srv, n) == "imageGenerationFlow"

Dispatch(srv, n) ==
  IF srv = "mcp-server"
    THEN CASE n = "generate_image" -> "imageGenerationFlow"
           [] n = "combine_image_audio_to_video" -> "combineImageAudioToVideoFlow"
           [] n = "veo31_text_to_video" -> "veo31TextToVideoFlow"
           [] n = "veo31_fast_text_to_video" -> "veo31FastTextToVideoFlow"
           [] n = "veo31_image_to_video" -> "veo31ImageToVideoFlow"
           [] n = "veo31_fast_image_to_video" -> "veo31FastImageToVideoFlow"
           [] n = "veo31_video_extension" -> "veo31VideoToVideoFlow"
           [] n = "veo31_fast_video_extension" -> "veo31FastVideoToVideoFlow"
           [] OTHER -> Undef
    ELSE CASE n = "generate_image" -> "imageGenerationFlow"
           [] n = "text_to_speech" -> "textToSpeechFlow"
           [] n = "veo31_fast_image_to_video" -> "veo31FastImageToVideoFlow"
           [] n = "veo31_video_extension" -> "veo31VideoToVideoFlow"
           [] OTHER -> Undef

\* if (!args)
NoArgumentsOrEmpty(a) == a \in {"absent", "empty"}

NoArguments(a) == a = "absent"

\* the values a flow may resolve with, and JSON.stringify(result, null, 2)
FlowResults == {[success |-> TRUE], [success |-> FALSE],
                [error |-> "network error"]}
Stringify(r) ==
  IF "error" \in DOMAIN r THEN "{\n  \"error\": \"" \o r.error \o "\"\n}"
  ELSE IF r.success THEN "{\n  \"success\": true\n}"
  ELSE "{\n  \"success\": false\n}"

\* the values a flow call may reject with: a thrown value of the flow's own
\* machinery, or the rejection of an input that does not fit the input schema
Rejections == Thrown \cup {Err("INVALID_ARGUMENT: Schema validation failed")}

\* { content: [{ type: "text", text }], isError: true }
ErrorResponse(text) ==
  [content |-> <<[type |-> "text", text |-> text]>>, isError |-> TRUE]

\* { content: [{ type: "text", text: JSON.stringify(result, null, 2) }] }
FailureResultFlagged(r) ==
  IF r = [success |-> TRUE]
    THEN [content |-> <<[type |-> "text", text |-> Stringify(r)]>>]
    ELSE [content |-> <<[type |-> "text", text |-> Stringify(r)]>>,
          isError |-> TRUE]

ResultResponse(r) == [content |-> <<[type |-> "text", text |-> Stringify(r)]>>]

\* `Error: ${error instanceof Error ? error.message : "Unknown error"}`
CaughtResponse(e) ==
  ErrorResponse("Error: " \o (IF e.isError THEN e.message ELSE "Unknown error"))

NoResponse == [content |-> <<>>]

\* the handler has not awaited a flow call to its end
NotSettled == [kind |-> "none", value |-> Undef]

McpInit ==
  /\ server \in Servers
  /\ name \in ToolNames
  /\ args \in Arguments
  /\ mpc = "request"
  /\ invoked = <<>>
  /\ outcome = NotSettled
  /\ mcpResponse = NoResponse

\* no call-tool request is being handled
McpIdle ==
  /\ server = "mcp-server"
  /\ name = "generate_image"
  /\ args = "absent"
  /\ mpc = "idle"
  /\ invoked = <<>>
  /\ outcome = NotSettled
  /\ mcpResponse = NoResponse

\* the handler is entered: the arguments test, then the switch
MCallTool ==
  /\ mpc = "request"
  /\ IF NoArguments(args)
       THEN /\ mcpResponse' = ErrorResponse("Error: No arguments provided")
            /\ mpc' = "responded"
            /\ UNCHANGED invoked
     ELSE IF Dispatch(server, name) = Undef
       THEN /\ mcpResponse' = CaughtResponse(Err("Unknown tool: " \o name))
            /\ mpc' = "responded"
            /\ UNCHANGED invoked
     ELSE /\ invoked' = Append(invoked, Dispatch(server, name))
          /\ mpc' = "flow"
          /\ UNCHANGED mcpResponse
  /\ UNCHANGED <<server, name, args, outcome>>
  /\ UNCHANGED mcpRest

\* the flow call settles; the handler returns the stringified result, or the
\* catch block's error response
MFlowSettles ==
  /\ mpc = "flow"
  /\ \/ \E r \in FlowResults :
          /\ outcome' = [kind |-> "resolved", value |-> r]
          /\ mcpResponse' = ResultResponse(r)
     \/ \E e \in Rejections :
          /\ outcome' = [kind |-> "rejected", value |-> e]
          /\ mcpResponse' = CaughtResponse(e)
  /\ mpc' = "responded"
  /\ UNCHANGED <<server, name, args, invoked>>
  /\ UNCHANGED mcpRest

McpNext == MCallTool \/ MFlowSettles

(***************************************************************************)
(* Two runs of videoWithVoiceoverFlow in one process, sharing OUTPUT_DIR.  *)
(***************************************************************************)
Runs == {1, 2}

\* the texts the speech-synthesis invocation of a run may answer with: one
\* that names no file, and one that names the file its call wrote
RunTexts(w) ==
  {"Audio generated"}
    \cup (IF w = "/output/a.mp3" THEN {"Audio saved to /output/a.mp3"} ELSE {})

\* fs.existsSync and fs.readdirSync(OUTPUT_DIR) of a run see the one
\* directory every run writes to
OwnFilesOnly(r) ==
  [p \in AudioPaths |-> IF p = dwrote[r] THEN ddisk[p] ELSE 0]

DirSeenBy(r) == ddisk

DuoInit ==
  /\ dpc = [r \in Runs |-> "start"]
  /\ dresult = [r \in Runs |-> EmptyResult]
  /\ ddisk = [p \in AudioPaths |-> 0]
  /\ dnow = 0
  /\ dwrote = [r \in Runs |-> Undef]
  /\ dtext = [r \in Runs |-> Undef]
  /\ dvideo = [r \in Runs |-> Undef]
  /\ dmuxed = [r \in Runs |-> Undef]

\* no pair of pipeline runs is under way
DuoIdle ==
  /\ dpc = [r \in Runs |-> "off"]
  /\ dresult = [r \in Runs |-> EmptyResult]
  /\ ddisk = [p \in AudioPaths |-> 0]
  /\ dnow = 0
  /\ dwrote = [r \in Runs |-> Undef]
  /\ dtext = [r \in Runs |-> Undef]
  /\ dvideo = [r \in Runs |-> Undef]
  /\ dmuxed = [r \in Runs |-> Undef]

\* run r goes on to its next await
DGoto(r, pc) ==
  /\ dpc' = [dpc EXCEPT ![r] = pc]
  /\ UNCHANGED dresult

\* e is thrown inside run r's try block while its record is rec
DThrow(r, rec, e) ==
  /\ dpc' = [dpc EXCEPT ![r] = "returned"]
  /\ dresult' = [dresult EXCEPT ![r] = PipelineCatch(rec, e)]

\* run r's handler is entered and issues Step 1's ai.generate
DStart(r) ==
  /\ dpc[r] = "start"
  /\ DGoto(r, "imageGen")
  /\ UNCHANGED <<ddisk, dnow, dwrote, dtext, dvideo, dmuxed>>
  /\ UNCHANGED duoRest

\* Step 1: the image model answers, with a data: URL or none
DImageGen(r) ==
  /\ dpc[r] = "imageGen"
  /\ \/ \E e \in Thrown : DThrow(r, dresult[r], e)
     \/ DThrow(r, RecordImageUrl(dresult[r], Undef), Err("Failed to generate image"))
     \/ /\ dresult' = [dresult EXCEPT
                         ![r] = RecordImageUrl(@, "data:image/jpeg;base64,AAAA")]
        /\ dpc' = [dpc EXCEPT ![r] = "ensureDir"]
  /\ UNCHANGED <<ddisk, dnow, dwrote, dtext, dvideo, dmuxed>>
  /\ UNCHANGED duoRest

\* ensureDir(OUTPUT_DIR) answers; the data: URL is decoded and writeFile issued
DEnsureDir(r) ==
  /\ dpc[r] = "ensureDir"
  /\ \/ \E e \in Thrown : DThrow(r, dresult[r], e)
     \/ DGoto(r, "writeFile")
  /\ UNCHANGED <<ddisk, dnow, dwrote, dtext, dvideo, dmuxed>>
  /\ UNCHANGED duoRest

\* writeFile(imagePath, imageBuffer) answers; Step 2 asks for the MCP tools
DWriteFile(r) ==
  /\ dpc[r] = "writeFile"
  /\ \/ \E e \in Thrown : DThrow(r, dresult[r], e)
     \/ DGoto(r, "getActiveTools")
  /\ UNCHANGED <<ddisk, dnow, dwrote, dtext, dvideo, dmuxed>>
  /\ UNCHANGED duoRest

\* mcpHost.getActiveTools answers; the speech-synthesis invocation is issued
DGetActiveTools(r) ==
  /\ dpc[r] = "getActiveTools"
  /\ \/ \E e \in Thrown : DThrow(r, dresult[r], e)
     \/ DGoto(r, "ttsGen")
  /\ UNCHANGED <<ddisk, dnow, dwrote, dtext, dvideo, dmuxed>>
  /\ UNCHANGED duoRest

\* while run r's speech-synthesis invocation is pending, its tool writes an
\* audio file of a name not yet in use into OUTPUT_DIR
DToolWrites(r) ==
  /\ dpc[r] = "ttsGen"
  /\ dwrote[r] = Undef
  /\ \E w \in OutputDirAudio :
       /\ ddisk[w] = 0
       /\ ddisk' = [ddisk EXCEPT ![w] = dnow + 1]
       /\ dwrote' = [dwrote EXCEPT ![r] = w]
  /\ dnow' = dnow + 1
  /\ UNCHANGED <<dpc, dresult, dtext, dvideo, dmuxed>>
  /\ UNCHANGED duoRest

\* Step 2: run r's speech-synthesis invocation answers; the audio path is
\* located, recorded and checked, and Step 3 starts ffmpeg
DTtsGen(r) ==
  /\ dpc[r] = "ttsGen"
  /\ \/ \E e \in Thrown :
          /\ DThrow(r, dresult[r], e)
          /\ UNCHANGED <<dtext, dvideo>>
     \/ \E t \in RunTexts(dwrote[r]) :
          /\ dtext' = [dtext EXCEPT ![r] = t]
          /\ \E p \in LocateAudio(t, DirSeenBy(r)) :
               LET rec == RecordAudioPath(dresult[r], p)
               IN  IF AudioMissing(DirSeenBy(r), p)
                     THEN /\ DThrow(r, rec, Err("Failed to generate or locate audio file. TTS Response: "
                                                \o TemplateText(t)))
                          /\ UNCHANGED dvideo
                     ELSE /\ dresult' = [dresult EXCEPT ![r] = rec]
                          /\ \E c \in 1..MaxClock :
                               dvideo' = [dvideo EXCEPT ![r] = VideoName(c)]
                          /\ dpc' = [dpc EXCEPT ![r] = "ffmpeg"]
  /\ UNCHANGED <<ddisk, dnow, dwrote, dmuxed>>
  /\ UNCHANGED duoRest

\* Step 3: run r's ffmpeg signals "end" or "error"; the video path is
\* recorded and, postOnX being false, the handler returns the record
DFfmpeg(r) ==
  /\ dpc[r] = "ffmpeg"
  /\ \/ \E e \in Thrown :
          /\ DThrow(r, dresult[r], e)
          /\ UNCHANGED dmuxed
     \/ /\ dmuxed' = [dmuxed EXCEPT ![r] = dresult[r].audioPath]
        /\ dresult' = [dresult EXCEPT ![r] = RecordVideoPath(@, dvideo[r])]
        /\ dpc' = [dpc EXCEPT ![r] = "returned"]
  /\ UNCHANGED <<ddisk, dnow, dwrote, dtext, dvideo>>
  /\ UNCHANGED duoRest

DuoNext ==
  \E r \in Runs :
    \/ DStart(r) \/ DImageGen(r) \/ DEnsureDir(r) \/ DWriteFile(r)
    \/ DGetActiveTools(r) \/ DToolWrites(r) \/ DTtsGen(r) \/ DFfmpeg(r)

DuoOnlyInit == DuoInit /\ VeoIdle /\ PipeIdle /\ SoloIdle /\ PairIdle /\ McpIdle

DuoSpec == DuoOnlyInit /\ [][DuoNext]_vars

McpOnlyInit == McpInit /\ VeoIdle /\ PipeIdle /\ SoloIdle /\ PairIdle /\ DuoIdle

McpSpec == McpOnlyInit /\ [][McpNext]_vars

PairOnlyInit == PairInit /\ VeoIdle /\ PipeIdle /\ SoloIdle /\ McpIdle /\ DuoIdle

PairSpec == PairOnlyInit /\ [][PairNext]_vars

PipelineInit == PipeInit /\ VeoIdle /\ SoloIdle /\ PairIdle /\ McpIdle /\ DuoIdle

PipelineSpec == PipelineInit /\ [][PipeNext]_vars

Init == VeoInit /\ PipeIdle /\ SoloIdle /\ PairIdle /\ McpIdle /\ DuoIdle

Next == VeoNext

Spec == Init /\ [][Next]_vars

\* The event loop resumes the suspended task whenever the external operation
\* it awaits responds, and every external operation responds.
FairSpec == Spec /\ WF_vars(Next)

\* one call of any one flow
AllFlowsInit ==
  \/ VeoInit /\ PipeIdle /\ SoloIdle /\ PairIdle /\ McpIdle /\ DuoIdle
  \/ PipeInit /\ VeoIdle /\ SoloIdle /\ PairIdle /\ McpIdle /\ DuoIdle
  \/ SoloInit /\ VeoIdle /\ PipeIdle /\ PairIdle /\ McpIdle /\ DuoIdle

AllFlowsNext == VeoNext \/ PipeNext \/ SoloNext

AllFlowsSpec == AllFlowsInit /\ [][AllFlowsNext]_vars

(***************************************************************************)
(* Properties of the pipeline.                                             *)
(***************************************************************************)
\* an external call with this name was issued
Issued(op) == \E i \in DOMAIN calls : calls[i].op = op

\* the stage an external call belongs to
StageOf(op) ==
  CASE op \in {"imageGen", "ensureDir", "fetch", "arrayBuffer", "writeFile"} -> 1
    [] op \in {"getActiveTools", "ttsGen"} -> 2
    [] op = "ffmpeg" -> 3
    [] op = "tweetGen" -> 4

\* the position of an external call in the handler's text
DeclarationOrder(op) ==
  CASE op = "imageGen" -> 1
    [] op = "ensureDir" -> 2
    [] op = "fetch" -> 3
    [] op = "arrayBuffer" -> 4
    [] op = "writeFile" -> 5
    [] op = "getActiveTools" -> 6
    [] op = "ttsGen" -> 7
    [] op = "ffmpeg" -> 8
    [] op = "tweetGen" -> 9

StageIssued(n) == \E i \in DOMAIN calls : StageOf(calls[i].op) = n

\* what each stage leaves behind when it succeeds
ImageStageOK == result.imageUrl # Undef /\ imageSaved
AudioStageOK == result.audioPath # Undef /\ Exists(disk, result.audioPath)
MuxStageOK == muxed

\* a stage failed: an external call threw, the image model returned no URL,
\* or the speech-synthesis invocation answered and no audio file was located
ImageUrlMissing ==
  \E i \in DOMAIN calls :
    calls[i].op = "imageGen" /\ calls[i].st = "ok" /\ result.imageUrl = Undef

AudioNotLocated ==
  \E i \in DOMAIN calls :
    /\ calls[i].op = "ttsGen" /\ calls[i].st = "ok"
    /\ \/ result.audioPath = Undef
       \/ ~Exists(disk, IF result.audioPath = Undef THEN "/output/a.mp3"
                        ELSE result.audioPath)

SomeCallThrew == \E i \in DOMAIN calls : calls[i].st = "threw"

StageFailed == SomeCallThrew \/ ImageUrlMissing \/ AudioNotLocated

LastCall == calls[Len(calls)]

\* C1: the external calls are issued in stage order; a call of the audio,
\* muxing or publish stage is issued only when every earlier call answered
\* without throwing and every earlier stage left its artifact; a stage failure
\* ends the run with error set, and no call is issued after it.
C1_AbortOnFirstError ==
  /\ [](/\ \A i, j \in DOMAIN calls :
             i < j => /\ StageOf(calls[i].op) <= StageOf(calls[j].op)
                      /\ calls[i].st = "ok"
        /\ StageIssued(2) => ImageStageOK
        /\ StageIssued(3) => ImageStageOK /\ AudioStageOK
        /\ StageIssued(4) => ImageStageOK /\ AudioStageOK /\ MuxStageOK
        /\ StageFailed => ppc = "returned" /\ result.error # Undef)
  /\ [][StageFailed => calls' = calls /\ ppc' = "returned"]_vars

C1_Witness ==
  /\ postOnX = "true"
  /\ ppc = "returned"
  /\ LastCall.op = "ffmpeg"
  /\ LastCall.st = "threw"
  /\ result.error # Undef
  /\ ~Issued("tweetGen")

\* C2: a run that ended in its audio stage returns a record with imageUrl
\* and error populated and neither videoPath nor tweetStatus; a run that ended
\* by a failure of a later stage returns the artifacts of all the stages
\* before it together with error.
C2_FailedRunKeepsArtifacts ==
  (ppc = "returned" /\ StageFailed) =>
    /\ result.error # Undef
    /\ StageOf(LastCall.op) = 2 =>
         /\ result.imageUrl \in ImageUrls
         /\ result.videoPath = Undef
         /\ result.tweetStatus = Undef
    /\ StageOf(LastCall.op) = 3 =>
         /\ result.imageUrl \in ImageUrls
         /\ result.audioPath \in AudioPaths
         /\ result.videoPath = Undef
         /\ result.tweetStatus = Undef
    /\ StageOf(LastCall.op) = 4 =>
         /\ result.imageUrl \in ImageUrls
         /\ result.audioPath \in AudioPaths
         /\ result.videoPath = pVideoPath /\ pVideoPath # Undef
         /\ result.tweetStatus = Undef

C2_Witness ==
  /\ ppc = "returned"
  /\ LastCall.op = "ttsGen"
  /\ LastCall.st = "ok"
  /\ AudioNotLocated
  /\ result.imageUrl # Undef
  /\ result.error # Undef
  /\ result.videoPath = Undef

\* C3: the external calls are issued strictly in the order of the handler's
\* text, each after the previous one answered, and imageUrl is in the record
\* when the speech-synthesis stage issues a call, audioPath when ffmpeg is
\* started, videoPath when the tweet invocation is issued.
C3_RecordedBeforeNextStage ==
  /\ \A i, j \in DOMAIN calls :
       i < j => /\ DeclarationOrder(calls[i].op) < DeclarationOrder(calls[j].op)
                /\ calls[i].st = "ok"
  /\ StageIssued(2) => result.imageUrl # Undef
  /\ StageIssued(3) => result.audioPath # Undef
  /\ StageIssued(4) => result.videoPath # Undef

C3_Witness ==
  /\ ppc = "tweetGen"
  /\ LastCall.op = "tweetGen"
  /\ LastCall.st = "pending"
  /\ result.videoPath # Undef
  /\ result.audioPath # Undef

\* C4: when postOnX is false or omitted no tweet invocation is issued,
\* tweetStatus stays absent, and a run whose image, audio and muxing stages
\* succeeded has returned with error absent and videoPath populated.
C4_PublishSkipped ==
  postOnX # "true" =>
    /\ ~Issued("tweetGen")
    /\ result.tweetStatus = Undef
    /\ (ImageStageOK /\ AudioStageOK /\ MuxStageOK) =>
         /\ ppc = "returned"
         /\ result.error = Undef
         /\ result.videoPath # Undef

C4_Witness ==
  /\ postOnX = "omitted"
  /\ ppc = "returned"
  /\ MuxStageOK
  /\ result.error = Undef
  /\ result.tweetStatus = Undef

\* C5: in a returned record error is populated exactly when a stage failed;
\* at most one call threw, and error is that failure's reason: the thrown
\* Error's message ("Unknown error occurred" for a thrown non-Error), or the
\* stage's own message when the image URL or the audio file is missing; when
\* nothing failed videoPath is populated, and tweetStatus too if publication
\* was requested.
C5_ErrorIffStageFailed ==
  ppc = "returned" =>
    /\ result.error # Undef <=> StageFailed
    /\ Cardinality({i \in DOMAIN calls : calls[i].st = "threw"}) <= 1
    /\ LastCall.st = "threw" =>
         result.error = (IF LastCall.err.isError THEN LastCall.err.message
                         ELSE "Unknown error occurred")
    /\ ImageUrlMissing => result.error = "Failed to generate image"
    /\ AudioNotLocated =>
         result.error = "Failed to generate or locate audio file. TTS Response: "
                        \o (IF ttsText = Undef THEN "undefined" ELSE ttsText)
    /\ ~StageFailed =>
         /\ result.error = Undef
         /\ result.videoPath # Undef
         /\ postOnX = "true" => result.tweetStatus # Undef

C5_Witness ==
  /\ ppc = "returned"
  /\ LastCall.op = "writeFile"
  /\ LastCall.st = "threw"
  /\ result.error = "Unknown error occurred"
  /\ result.imageUrl # Undef

(***************************************************************************)
(* Properties of the poll loop.                                            *)
(***************************************************************************)
\* the two poll intervals, in milliseconds
ShortInterval == 3000
LongInterval == 5000

\* the handler has received the handle of a submitted job
Submitted == operation.id # Undef

\* C6: a connector waits or queries only while the last handle it observed is
\* neither done nor failed; it goes on to the download, or returns without
\* any external call having thrown, only after it observed done; and once a
\* handle shows the job failed the call has returned a failure result, so no
\* further status query follows.
C6_PollsUntilDoneOrFailed ==
  /\ vpc \in {"sleep", "check"} => ~operation.done /\ operation.error = Undef
  /\ vpc \in {"fetch", "pipe"} => operation.done
  /\ (vpc = "returned" /\ Submitted /\ ~callThrew) => operation.done
  /\ operation.error # Undef =>
       /\ vpc = "returned"
       /\ vresult.error # Undef
       /\ vresult.videoPath = Undef

C6_Witness ==
  /\ vpc = "returned"
  /\ operation.error # Undef
  /\ queries = 2
  /\ vresult.error # Undef

\* C7: if the job first reports done at its k-th status query (k = 0: the
\* submission returns a done handle), at most k queries are ever issued, and
\* when the handler is past the loop (downloading, or returned without any
\* external call having thrown) exactly k queries have been issued.
C7_ExactlyKQueries ==
  /\ job.completes => queries <= job.doneAt
  /\ operation.done => queries = job.doneAt
  /\ vpc \in {"fetch", "pipe"} => job.completes /\ queries = job.doneAt
  /\ (vpc = "returned" /\ Submitted /\ ~callThrew) =>
       job.completes /\ queries = job.doneAt

C7_Witness ==
  /\ flow = "veo31FastTextToVideoFlow"
  /\ job.doneAt = 2
  /\ queries = 2
  /\ vpc = "returned"
  /\ vresult.error = Undef
  /\ vresult.videoPath # Undef
  /\ vresult.traceId = job.id

\* C8: whenever a status query is in flight, the task was suspended since
\* its previous remote call (the submission or the previous query) for
\* exactly the flow's interval: 3 s in the fast flows, 5 s in the others.
C8_SuspendsBeforeEachQuery ==
  vpc = "check" =>
    sinceCall = (IF flow \in FastFlows THEN ShortInterval ELSE LongInterval)

C8_Witness ==
  /\ vpc = "check"
  /\ queries = 2
  /\ flow = "veo31ImageToVideoFlow"
  /\ sinceCall = LongInterval

\* C9 as stated: once the job is submitted, if it never reports done the
\* call never returns a result of either kind.
C9_NeverReturnsAsStated ==
  (Submitted /\ ~job.completes) => vpc # "returned"

\* C9 as amended: once the job is submitted, if it never reports done and no
\* status query throws, the call never returns; and if the job reports done
\* at some query and every external call responds, the call eventually
\* returns.
C9_NoTimeout ==
  /\ []((Submitted /\ ~job.completes /\ ~callThrew) => vpc # "returned")
  /\ (job.completes => <>(vpc = "returned"))

C9_Witness ==
  /\ ~job.completes
  /\ queries > MaxPolls
  /\ vpc = "check"

\* C10: when the job finished with a remote error, the call has returned a
\* failure result whose error text is a fixed prefix followed by the remote
\* error description, no download was attempted and no output file exists.
C10_RemoteErrorResult ==
  operation.error # Undef =>
    /\ vpc = "returned"
    /\ \E prefix \in {"Video generation failed: ", "Video extension failed: "} :
         vresult.error = prefix \o job.error
    /\ vresult.videoPath = Undef
    /\ vresult.videoUrl = Undef
    /\ fetches = 0
    /\ outFile = "absent"

C10_Witness ==
  /\ operation.error \in RemoteErrors
  /\ queries = 1
  /\ vpc = "returned"
  /\ fetches = 0

(***************************************************************************)
(* Properties of the inputs, the results and the external calls of the     *)
(* Veo connectors.                                                         *)
(***************************************************************************)
\* C11: in both image-to-video connectors, when imagePath names no existing
\* file the call ends with a failure result whose error names the missing
\* image, and no remote call is made: no job is submitted, no status query
\* is issued and no download is attempted.
C11_MissingImageNoRemoteCall ==
  (flow \in ImageFlows /\ ~imageExists) =>
    /\ submits = 0
    /\ queries = 0
    /\ fetches = 0
    /\ operation = NoOperation
    /\ vpc \in {"start", "returned"}
    /\ vpc = "returned" =>
         /\ vresult.error = "Image file not found: " \o InputImagePath
         /\ vresult.videoPath = Undef

C11_Witness ==
  /\ flow = "veo31FastImageToVideoFlow"
  /\ ~imageExists
  /\ vpc = "returned"
  /\ vresult.error = "Image file not found: input.png"
  /\ submits = 0

\* C12 (as stated): when no API credential is configured, the call fails
\* before the job is submitted: no job is created on the remote service and
\* no status query is made.
C12_FailsBeforeSubmission ==
  ~apiKey => (~Submitted /\ queries = 0)

\* C13: every result a Veo connector returns is of exactly one kind: a
\* success (videoPath populated, error absent) or a failure (error
\* populated; videoPath, videoUrl and traceId absent), never both and never
\* neither.
C13_SuccessXorFailure ==
  vpc = "returned" =>
    LET success == vresult.videoPath # Undef /\ vresult.error = Undef
        failure == /\ vresult.error # Undef
                   /\ vresult.videoPath = Undef
                   /\ vresult.videoUrl = Undef
                   /\ vresult.traceId = Undef
    IN  /\ success \/ failure
        /\ ~(success /\ failure)
        /\ success <=> outFile = "complete"

C13_Witness ==
  /\ vpc = "returned"
  /\ videoPath # Undef
  /\ outFile = "partial"
  /\ vresult.error = "network error"
  /\ vresult.videoPath = Undef
  /\ vresult.traceId = Undef

MediaIndexes(content) == {i \in 1..Len(content) : content[i].media}

FirstMediaIndex(content) ==
  CHOOSE i \in MediaIndexes(content) : \A k \in MediaIndexes(content) : i <= k

\* the call ended with the artifact-not-found failure and attempted no download
ArtifactNotFound ==
  /\ vpc = "returned"
  /\ vresult.error \in
       {"Failed to find the generated video in the operation output",
        "Failed to find the extended video in the operation output"}
  /\ fetches = 0
  /\ outFile = "absent"

\* C15 (as stated): once the job is done without error, the call fails with
\* artifact-not-found, without a download, if and only if no item of the
\* returned collection bears media.
C15_NotFoundIffNoMediaItem ==
  (operation.done /\ operation.error = Undef) =>
    (ArtifactNotFound <=> MediaIndexes(operation.content) = {})

\* C15 (amended): once the job is done without error, the call considers the
\* first item that bears media only; it fails with artifact-not-found,
\* without a download, if and only if no item bears media or that first item
\* carries no URL, and otherwise downloads from that first item's URL.
C15_NotFoundIffFirstMediaHasNoUrl ==
  (operation.done /\ operation.error = Undef) =>
    LET content == operation.content
        none    == MediaIndexes(content) = {}
    IN  /\ ArtifactNotFound <=>
             (none \/ content[FirstMediaIndex(content)].url = Undef)
        /\ ArtifactNotFound => (downloadUrl = Undef /\ video = NoVideo)
        /\ ~ArtifactNotFound =>
             /\ video = content[FirstMediaIndex(content)]
             /\ downloadUrl = content[FirstMediaIndex(content)].url

C15_Witness ==
  /\ operation.done
  /\ operation.error = Undef
  /\ Len(operation.content) = 2
  /\ operation.content[1] = [media |-> TRUE, url |-> Undef]
  /\ operation.content[2].url \in Urls
  /\ ArtifactNotFound

\* C16: within one call the job is submitted at most once and a download is
\* attempted at most once; once the call has returned, no external call is
\* issued again and the returned result never changes: a failure is terminal
\* and nothing is retried.
C16_NoRetry ==
  /\ [](submits <= 1 /\ fetches <= 1)
  /\ [][vpc = "returned" =>
          /\ vpc' = "returned"
          /\ vresult' = vresult
          /\ submits' = submits
          /\ queries' = queries
          /\ fetches' = fetches]_vars
  /\ [][(vresult'.error # Undef /\ vresult.error = Undef) =>
          /\ vpc' = "returned"
          /\ submits' = submits
          /\ queries' = queries
          /\ fetches' = fetches]_vars

C16_Witness ==
  /\ vpc = "returned"
  /\ vresult.error = "Failed to download video: Not Found"
  /\ submits = 1
  /\ fetches = 1
  /\ queries = 2

(***************************************************************************)
(* Properties of the results of all flows.                                 *)
(***************************************************************************)
\* an external call of the running single-purpose flow has thrown
SoloCallThrew == \E i \in 1..Len(scalls) : scalls[i].st = "threw"

\* the handler of the running single-purpose flow is suspended at an
\* external call that has not answered yet
SoloSuspended == scalls # <<>> /\ scalls[Len(scalls)].st = "pending"

\* C17: every flow (the seven Veo flows, image generation, combine,
\* text-to-speech, tweet, the pipeline) ends every call by returning a result
\* object: a handler is at its entry, suspended at a pending external call,
\* or has returned; no handler's promise is ever rejected; and once an
\* external call has thrown, the handler has returned a failure result.
C17_FaultsNeverEscape ==
  /\ vpc \in {"idle", "start", "generate", "sleep", "check", "fetch", "pipe",
              "returned"}
  /\ callThrew =>
       /\ vpc = "returned"
       /\ vresult.error # Undef
       /\ vresult.videoPath = Undef
  /\ ppc \notin {"idle", "start", "returned"} =>
       (calls # <<>> /\ calls[Len(calls)].st = "pending")
  /\ SomeCallThrew =>
       /\ ppc = "returned"
       /\ result.error # Undef
  /\ spc \in {"idle", "start", "returned"} \/ SoloSuspended
  /\ spc # "rejected"
  /\ SoloCallThrew =>
       /\ spc = "returned"
       /\ sresult.success = FALSE
       /\ \A k \in {"imagePath", "videoPath", "audioPath", "result"} :
            k \in DOMAIN sresult => sresult[k] = Undef

C17_Witness ==
  /\ solo = "postTweetFlow"
  /\ spc = "returned"
  /\ Len(scalls) = 2
  /\ scalls[2].st = "threw"
  /\ ~scalls[2].err.isError
  /\ sresult.success = FALSE
  /\ sresult.error = "Failed to post tweet"

\* C18 (as stated): every result returned by every flow carries an explicit
\* success indicator, and every failure result carries a non-empty error
\* string.
C18_SuccessFlagAndErrorText ==
  /\ vpc = "returned" =>
       /\ "success" \in DOMAIN vresult
       /\ vresult.error \notin {Undef, ""} \/ vresult.videoPath # Undef
  /\ ppc = "returned" => "success" \in DOMAIN result
  /\ spc = "returned" =>
       /\ "success" \in DOMAIN sresult
       /\ ~sresult.success =>
            ("error" \in DOMAIN sresult /\ sresult.error \notin {Undef, ""})

(***************************************************************************)
(* Properties of the output names.                                         *)
(***************************************************************************)
\* both calls have returned a success result
BothSucceeded == \A c \in Calls : nresult[c] = "success"

\* C19 (as stated): when two successful generations are performed one after
\* the other, the epoch-millisecond suffix of the later call is strictly
\* greater than that of the earlier call.
C19_LaterSuffixGreater ==
  (sequential /\ BothSucceeded) => stamp[2] > stamp[1]

\* C20: the output path of a call is determined by the connector and the
\* clock value its naming step reads, and by nothing else: two calls of one
\* connector obtain the same path exactly when they read the same clock
\* value; and when both then return success with that path, the one file
\* there holds the output of at most one of them, so the other call's
\* output has been overwritten.
C20_NamesProtectedByTimestampOnly ==
  /\ (stamp[1] # 0 /\ stamp[2] # 0) =>
       (npath[1] = npath[2] <=> stamp[1] = stamp[2])
  /\ \A c \in Calls :
       nresult[c] = "success" => npath[c] \in DOMAIN nfile
  /\ (BothSucceeded /\ stamp[1] = stamp[2]) =>
       \E c \in Calls : nfile[npath[c]] # Data(c)

C20_Witness ==
  /\ ~sequential
  /\ BothSucceeded
  /\ stamp[1] = stamp[2]
  /\ npath[1] = npath[2]
  /\ npath[1] = "output/veo31fast_2.mp4"
  /\ nfile[npath[1]] = "call 2"

\* the text tells where an .mp3 file is, in a form the handler's two
\* expressions recognise: after "saved to:", "path:" or "file:", or as an
\* absolute path
Mp3PathOf(text) ==
  CASE text \in {"File saved to: /output/a.mp3",
                 "Success. File saved as: /output/a.mp3. Voice used: Adam",
                 "{\"file\":\"/output/a.mp3\"}"} -> "/output/a.mp3"
    [] text = "path: out/b.mp3" -> "out/b.mp3"
    [] OTHER -> Undef

\* the stringified output of the first structured call entry
FirstEntryText ==
  IF stools[1].type = "string" THEN stools[1].value
  ELSE IF stools[1].type = "undefined" THEN Undef
  ELSE IF stools[1].value = Undef THEN "{}"
  ELSE "{\"file\":\"" \o stools[1].value \o "\"}"

\* some file of the output directory is newer than the file at path p, or
\* p is not a file of the output directory at all
NewerFileThan(p) ==
  \E q \in TtsDirFiles \ {p} :
    /\ sdisk[q] > 0
    /\ p \in TtsDirFiles => sdisk[q] > sdisk[p]

ToolInvocationAnswered ==
  \E i \in DOMAIN scalls : scalls[i].op = "generate" /\ scalls[i].st = "ok"

\* the speech-synthesis invocation of the pipeline answered
SpeechAnswered ==
  \E i \in DOMAIN calls : calls[i].op = "ttsGen" /\ calls[i].st = "ok"

\* the response text of the pipeline's speech-synthesis invocation names an
\* .mp3 file that exists
TextNamesExistingFile ==
  \/ ttsText = "Audio saved to /output/a.mp3" /\ disk["/output/a.mp3"] > 0
  \/ ttsText = "File: /elsewhere/c.mp3." /\ disk["/elsewhere/c.mp3"] > 0

\* p is an .mp3 or .wav file of the output directory d that no other such
\* file is newer than
NewestOf(d, dir, p) ==
  /\ p \in dir
  /\ d[p] > 0
  /\ \A q \in dir : d[q] <= d[p]

NoPathExtracted ==
  /\ solo = "textToSpeechFlow"
  /\ spc = "returned"
  /\ ToolInvocationAnswered
  /\ ~sresult.success

FfmpegStarted == \E i \in DOMAIN scalls : scalls[i].op = "ffmpeg"

\* the combine handler has left its entry
CombineActed == solo = "combineImageAudioToVideoFlow" /\ spc # "start"

\* C25 (as stated): every combine call whose audioPath does not exist returns
\* success=false with error exactly "Audio file not found: <audioPath>", and
\* ffmpeg is never started.
C25_MissingAudioReported ==
  (CombineActed /\ ~sinput.audio) =>
    /\ spc = "returned"
    /\ ~sresult.success
    /\ sresult.error = "Audio file not found: /in/voice.mp3"
    /\ ~FfmpegStarted

\* C25 (amended): a combine call whose audioPath does not exist returns
\* success=false without a video path and never starts ffmpeg or any other
\* external call; the error is "Audio file not found: <audioPath>" when the
\* image file exists, and "Image file not found: <imagePath>" when it does
\* not, since the image is checked first.
C25_MissingAudioAfterImageCheck ==
  (CombineActed /\ ~sinput.audio) =>
    /\ spc = "returned"
    /\ ~sresult.success
    /\ sresult.videoPath = Undef
    /\ sresult.error = (IF sinput.image
                          THEN "Audio file not found: /in/voice.mp3"
                          ELSE "Image file not found: /in/frame.jpg")
    /\ scalls = <<>>
    /\ ~swritten

C25_Witness ==
  /\ CombineActed
  /\ sinput.image
  /\ ~sinput.audio
  /\ spc = "returned"
  /\ sresult.error = "Audio file not found: /in/voice.mp3"
  /\ ~FfmpegStarted

\* ffmpeg signalled "end" to the running combine call
FfmpegCompleted ==
  \E i \in DOMAIN scalls : scalls[i].op = "ffmpeg" /\ scalls[i].st = "ok"

\* C26: the combine flow returns success=true, with the output video path it
\* chose, only after ffmpeg signalled completion; once ffmpeg has signalled
\* an error the flow has returned success=false with videoPath absent and
\* error equal to the message of ffmpeg's Error, unchanged ("Unknown error
\* occurred" if the rejection value is not an Error).
C26_SuccessOnlyAfterFfmpeg ==
  solo = "combineImageAudioToVideoFlow" =>
    /\ (spc = "returned" /\ sresult.success) =>
         /\ FfmpegCompleted
         /\ swritten
         /\ spath \in {"output/video_" \o ToString(t) \o ".mp4" : t \in 1..MaxClock}
         /\ sresult.videoPath = spath
         /\ sresult.error = Undef
    /\ \A i \in DOMAIN scalls :
         (scalls[i].op = "ffmpeg" /\ scalls[i].st = "threw") =>
           /\ spc = "returned"
           /\ ~sresult.success
           /\ sresult.videoPath = Undef
           /\ ~swritten
           /\ sresult.error = (IF scalls[i].err.isError
                                 THEN scalls[i].err.message
                                 ELSE "Unknown error occurred")

C26_Witness ==
  /\ solo = "combineImageAudioToVideoFlow"
  /\ spc = "returned"
  /\ Len(scalls) = 2
  /\ scalls[2].op = "ffmpeg"
  /\ scalls[2].st = "threw"
  /\ scalls[2].err.message = "ffmpeg exited with code 1"
  /\ ~sresult.success
  /\ sresult.videoPath = Undef
  /\ sresult.error = "ffmpeg exited with code 1"

\* C29 (as stated): materialising a remote artifact fails with a download
\* error whenever the fetch response is not OK or has no body, on the video
\* download path and on the image download path alike: nothing is written,
\* and the call returns no success result and no artifact path.
C29_RefusedResponseFailsDownload ==
  /\ dlResponse \in {"not ok", "no body"} =>
       /\ vpc = "returned"
       /\ vresult.error \in {"Failed to download video: Not Found",
                             "Failed to download video: OK"}
       /\ vresult.videoPath = Undef
       /\ outFile = "absent"
  /\ (solo = "imageGenerationFlow" /\ sresponse = "not ok") =>
       /\ ~swritten
       /\ spc = "returned" =>
            /\ ~sresult.success
            /\ sresult.imagePath = Undef

\* the number of bytes of the file at videoPath is not zero
FileHasBytes ==
  \/ outFile = "partial"
  \/ outFile = "complete" /\ dlResponse = "ok"

\* C30 (as stated): whenever a Veo connector returns a success result, the
\* local path it returns is non-empty and the file at that path exists with
\* a size that is not zero.
C30_SuccessFileHasBytes ==
  (vpc = "returned" /\ vresult.error = Undef) =>
    /\ vresult.videoPath \notin {Undef, ""}
    /\ outFile # "absent"
    /\ FileHasBytes

(***************************************************************************)
(* Properties of the call-tool handler.                                    *)
(***************************************************************************)
\* the text of the response's single content item
ResponseText == mcpResponse.content[1].text

\* the response is flagged as an error
IsErrorResponse == "isError" \in DOMAIN mcpResponse /\ mcpResponse.isError

\* the switch of the receiving server has a case for the requested name
Recognised ==
  IF server = "mcp-server"
    THEN name \in {"generate_image", "combine_image_audio_to_video",
                   "veo31_text_to_video", "veo31_fast_text_to_video",
                   "veo31_image_to_video", "veo31_fast_image_to_video",
                   "veo31_video_extension", "veo31_fast_video_extension"}
    ELSE name \in {"generate_image", "text_to_speech",
                   "veo31_fast_image_to_video", "veo31_video_extension"}

\* the handler has left its entry
Handled == mpc \in {"flow", "responded"}

\* C27 (as stated): a call-tool request with an unrecognised tool name
\* returns an error response whose text says "Unknown tool: <name>", with
\* isError true, and invokes no flow.
C27_UnknownToolRejected ==
  (Handled /\ ~Recognised) =>
    /\ mpc = "responded"
    /\ ResponseText \in {"Unknown tool: " \o name,
                         "Error: Unknown tool: " \o name}
    /\ IsErrorResponse
    /\ invoked = <<>>

\* C27 (amended): a call-tool request with an unrecognised tool name invokes
\* no flow and returns a response with isError true; its text is
\* "Error: Unknown tool: <name>" when the request carries an arguments
\* object, and "Error: No arguments provided" when it carries none, since
\* the arguments are tested before the name.
C27_UnknownToolAfterArgumentsTest ==
  (Handled /\ ~Recognised) =>
    /\ mpc = "responded"
    /\ ResponseText = (IF args = "absent" THEN "Error: No arguments provided"
                       ELSE "Error: Unknown tool: " \o name)
    /\ IsErrorResponse
    /\ invoked = <<>>

C27_Witness ==
  /\ server = "mcp-server"
  /\ name = "text_to_speech"
  /\ args = "given"
  /\ mpc = "responded"
  /\ ResponseText = "Error: Unknown tool: text_to_speech"
  /\ IsErrorResponse
  /\ invoked = <<>>

\* C28 (as stated): a call-tool request that lacks the tool's required
\* arguments fails with "No arguments provided" before dispatch: no flow is
\* invoked.
C28_MissingArgumentsRejected ==
  (Handled /\ args \in {"absent", "empty"}) =>
    /\ mpc = "responded"
    /\ ResponseText = "Error: No arguments provided"
    /\ IsErrorResponse
    /\ invoked = <<>>

\* C28 (amended): a call-tool request that carries no arguments object fails
\* with "Error: No arguments provided", isError true, before dispatch: no
\* flow is invoked. A request whose arguments object lacks the tool's
\* required fields passes that test: with a recognised name the flow is
\* invoked with the object as it is, and the response is never "No arguments
\* provided".
C28_OnlyAbsentArgumentsRejected ==
  /\ (Handled /\ args = "absent") =>
       /\ mpc = "responded"
       /\ ResponseText = "Error: No arguments provided"
       /\ IsErrorResponse
       /\ invoked = <<>>
  /\ (Handled /\ args # "absent" /\ Recognised) => Len(invoked) = 1
  /\ (mpc = "responded" /\ args # "absent") =>
       ResponseText # "Error: No arguments provided"

C28_Witness ==
  /\ name = "veo31_text_to_video"
  /\ server = "mcp-server"
  /\ args = "empty"
  /\ mpc = "responded"
  /\ invoked = <<"veo31TextToVideoFlow">>
  /\ IsErrorResponse
  /\ ResponseText = "Error: INVALID_ARGUMENT: Schema validation failed"

(***************************************************************************)
(* Properties of two pipeline runs that share the output directory.        *)
(***************************************************************************)
\* run r recorded, as its audio, the file the other run's speech-synthesis
\* call wrote
ForeignAudio(r) ==
  /\ dresult[r].audioPath # Undef
  /\ dresult[r].audioPath = dwrote[3 - r]

\* C24: when two pipeline runs use the same output directory, an audio step
\* whose response text names no file records the most recently modified audio
\* file of the directory, whichever run's speech-synthesis call wrote it;
\* ffmpeg is given the recorded file, and a run whose ffmpeg completed returns
\* videoPath with error absent, also when the audio is the other run's.
C24_FallbackTakesNewestOfSharedDir ==
  /\ [](\A r \in Runs :
          /\ dresult[r].audioPath # Undef =>
               dresult[r].audioPath \in {dwrote[1], dwrote[2]}
          /\ dmuxed[r] # Undef =>
               /\ dmuxed[r] = dresult[r].audioPath
               /\ dpc[r] = "returned"
               /\ dresult[r].error = Undef
               /\ dresult[r].videoPath # Undef)
  /\ [][\A r \in Runs :
          (dpc[r] = "ttsGen" /\ dpc'[r] = "ffmpeg"
             /\ dtext'[r] = "Audio generated") =>
            /\ dresult'[r].audioPath \in {"/output/a.mp3", "/output/b.wav"}
            /\ ddisk[dresult'[r].audioPath] > 0
            /\ \A q \in {"/output/a.mp3", "/output/b.wav"} :
                 ddisk[q] <= ddisk[dresult'[r].audioPath]]_vars

C24_Witness ==
  /\ dpc[1] = "returned"
  /\ dwrote[1] = "/output/a.mp3"
  /\ dwrote[2] = "/output/b.wav"
  /\ ddisk["/output/a.mp3"] < ddisk["/output/b.wav"]
  /\ ForeignAudio(1)
  /\ dmuxed[1] = "/output/b.wav"
  /\ dresult[1].error = Undef
  /\ dresult[1].videoPath # Undef

(***************************************************************************)
(* Properties of the progress observations and of the default connector.   *)
(***************************************************************************)
\* the status queries of this call that have answered, while no external
\* call has thrown
AnsweredQueries == IF vpc = "check" THEN queries - 1 ELSE queries

\* C31 (as stated): in every connector each poll iteration emits exactly one
\* progress observation, after its status query has answered: the number of
\* status lines written equals the number of status queries that answered.
C31_OneObservationPerPoll ==
  (queries <= MaxPolls /\ ~callThrew) => statusLines = AnsweredQueries

(***************************************************************************)
(* Further properties of the pipeline's run record.                        *)
(***************************************************************************)
\* the stage-outcome fields of the run record
OutcomeFields == {"imageUrl", "audioPath", "videoPath", "tweetStatus"}

\* this step is the one in which an external call of the run throws
CallThrowsNow ==
  /\ calls' # <<>>
  /\ calls'[Len(calls')].st = "threw"
  /\ calls # calls'

\* C32: the step in which an external call throws changes none of imageUrl,
\* audioPath, videoPath and tweetStatus and sets error; a step that ends the
\* run because a stage's own check failed changes, besides error, at most the
\* field that stage assigned just before its check; a record that has been
\* returned is never modified again; and a run whose stages all completed
\* returns its record with error absent.
C32_RecordFinalOnceFailed ==
  /\ [][/\ CallThrowsNow =>
             /\ \A f \in OutcomeFields : result'[f] = result[f]
             /\ result'.error # Undef
             /\ ppc' = "returned"
        /\ (ppc # "returned" /\ ppc' = "returned" /\ result'.error # Undef
              /\ ~CallThrowsNow) =>
             /\ ppc \in {"imageGen", "ttsGen"}
             /\ \A f \in OutcomeFields \ {IF ppc = "imageGen" THEN "imageUrl"
                                          ELSE "audioPath"} :
                  result'[f] = result[f]
        /\ ppc = "returned" => (result' = result /\ ppc' = "returned")]_vars
  /\ []((ppc = "returned" /\ ~StageFailed) => result.error = Undef)

C32_Witness ==
  /\ ppc = "returned"
  /\ LastCall.op = "ffmpeg"
  /\ LastCall.st = "threw"
  /\ result.error = "network error"
  /\ result.imageUrl = "https://images/1"
  /\ result.audioPath = "/output/b.wav"
  /\ result.videoPath = Undef
  /\ result.tweetStatus = Undef

\* the connector the default connector is documented to behave as
FastTextToVideo == "veo31FastTextToVideoFlow"

\* C33 (as stated): the default veoVideoFlow behaves as
\* veo31FastTextToVideoFlow on the same prompt, aspect ratio and remote
\* responses: its one submission goes to the same model with the same
\* configuration, its status queries follow the same interval, and its result
\* is of the same kind with the videoUrl and traceId the remote job gave.
C33_DefaultActsAsFastTextToVideo ==
  flow = "veoVideoFlow" =>
    /\ submits <= 1
    /\ submits = 1 => request = Submission(FastTextToVideo, aspectRatio)
    /\ PollInterval(flow) = PollInterval(FastTextToVideo)
    /\ (vpc = "returned" /\ vresult.error = Undef) =>
         /\ vresult.videoUrl = downloadUrl
         /\ vresult.traceId = job.id
    /\ (vpc = "returned" /\ vresult.error # Undef) =>
         vresult.error \in
           {"Expected the model to return an operation",
            "Missing API key for video download. Set GEMINI_API_KEY or GOOGLE_API_KEY environment variable.",
            "network error", "Unknown error occurred",
            NotFoundMessage(FastTextToVideo),
            "Failed to download video: Not Found", "Failed to download video: OK"}
           \cup {RemoteErrorPrefix(FastTextToVideo) \o m : m \in RemoteErrors}

\* C34: in every record the pipeline returns, the populated stage outcomes
\* form a prefix of the stage order: tweetStatus populated implies videoPath
\* populated, videoPath populated implies audioPath populated, and audioPath
\* populated implies imageUrl populated.
C34_OutcomesFormPrefix ==
  ppc = "returned" =>
    /\ result.tweetStatus # Undef => result.videoPath # Undef
    /\ result.videoPath # Undef => result.audioPath # Undef
    /\ result.audioPath # Undef => result.imageUrl # Undef

C34_Witness ==
  /\ ppc = "returned"
  /\ postOnX = "true"
  /\ result.tweetStatus = "Posted to X successfully"
  /\ result.videoPath # Undef
  /\ result.audioPath # Undef
  /\ result.imageUrl # Undef
  /\ result.error = Undef

\* C35 (as stated): any audioPath in a record the pipeline returned, whether
\* the run succeeded or failed, refers to a file that exists on disk.
C35_ReportedAudioExists ==
  (ppc = "returned" /\ result.audioPath # Undef) =>
    /\ result.audioPath \in DOMAIN disk
    /\ disk[result.audioPath] > 0

\* the file at path p was written by this run's speech-synthesis invocation:
\* it is newer than every file the directory held when the run began
WrittenByThisRun(p) == p \in DOMAIN disk /\ disk[p] > MaxMtime

\* C36 (as stated): in a single pipeline run the audio stage succeeds, and
\* ffmpeg is started, only with a file written by this run's
\* speech-synthesis invocation; if the invocation wrote no file the stage
\* fails, older audio files of the output directory notwithstanding.
C36_AudioStageNeedsOwnFile ==
  Issued("ffmpeg") =>
    /\ result.audioPath # Undef
    /\ WrittenByThisRun(result.audioPath)

\* C37 (as stated): a Veo connector call that returned a failure result has
\* created no file at its output path, also when the download failed after
\* the response was accepted and streaming into the file had begun.
C37_FailureLeavesNoFile ==
  (vpc = "returned" /\ vresult.error # Undef) => outFile = "absent"

\* the dispatched flow call rejected
FlowThrew == outcome.kind = "rejected"

\* the dispatched flow returned a structured failure result
FlowReturnedFailure ==
  /\ outcome.kind = "resolved"
  /\ \/ "error" \in DOMAIN outcome.value
     \/ ~outcome.value.success

\* C38: a response of the call-tool handler carries isError exactly when the
\* arguments are absent, the tool name is unknown, or the dispatched flow
\* throws; when the flow returns a result, a structured failure result
\* included, the response has no isError member and its text is the JSON of
\* that result.
C38_IsErrorIffHandlerFault ==
  mpc = "responded" =>
    /\ IsErrorResponse <=> (args = "absent" \/ ~Recognised \/ FlowThrew)
    /\ outcome.kind = "resolved" =>
         /\ "isError" \notin DOMAIN mcpResponse
         /\ Len(mcpResponse.content) = 1
         /\ ResponseText =
              (IF outcome.value = [success |-> TRUE]
                 THEN "{\n  \"success\": true\n}"
               ELSE IF outcome.value = [success |-> FALSE]
                 THEN "{\n  \"success\": false\n}"
               ELSE "{\n  \"error\": \"network error\"\n}")
    /\ FlowThrew => invoked # <<>>

C38_Witness ==
  /\ mpc = "responded"
  /\ server = "mcp-server"
  /\ name = "combine_image_audio_to_video"
  /\ args = "given"
  /\ FlowReturnedFailure
  /\ outcome.value = [success |-> FALSE]
  /\ ~IsErrorResponse
  /\ ResponseText = "{\n  \"success\": false\n}"

====
